---- MODULE Spec2Model ----
(***************************************************************************)
(* A model of the oneXRD signal-processing core:                           *)
(*   - oneXRD/analysis/search_match.py   perform_search_match              *)
(*   - oneXRD/analysis/background.py     subtract_polynomial,              *)
(*                                       subtract_iterative_erosion        *)
(*   - oneXRD/importers/__init__.py      load_data and the four readers    *)
(* Each function is a small state machine of its own (its inputs are drawn *)
(* in its Init, its loop position is a pc variable); the variables of the  *)
(* other machines stay at their idle values.                               *)
(*                                                                         *)
(* Numbers: angles, intensities and tolerances are integers (an angle unit *)
(* is one grid step).  A float quotient is kept as an exact fraction       *)
(* [num, den].  The erosion values are integers in units of 2^-MaxIter so  *)
(* that each halving of the loop is exact.                                 *)
(***************************************************************************)
EXTENDS Integers, Sequences, FiniteSets, TLC

VARIABLES
    \* ---- perform_search_match ----
    experimental_peaks,          \* the caller's table: [columns, rows]
    reference_pattern,           \* the caller's table: [columns, rows]
    angle_tolerance,
    sorted_reference,            \* the local rebinding of reference_pattern (line 45)
    ref_idx,                     \* position of the for loop (line 54), 1-based
    used_exp_indices,            \* line 52
    matched_peaks_info,          \* line 47
    matched_reference_intensity, \* line 49
    total_reference_intensity,   \* line 48
    sm_pc,
    sm_result,
    \* ---- subtract_iterative_erosion ----
    intensities,                 \* the caller's array
    iterations,
    background,                  \* line 73
    er_iter,                     \* iterations of the for loop done so far
    er_pc,
    \* ---- subtract_polynomial ----
    poly_n,                      \* len(angles) == len(intensities)
    selected_indices,
    poly_order,
    poly_pc,
    poly_result,
    \* ---- load_data ----
    file,                        \* the file system entry that filepath names
    ld_pc,
    reader_func,                 \* line 52
    reader_log,                  \* the readers invoked so far, in order
    reader_outcome,              \* what the invoked reader returned or raised
    header_rows,                 \* generic_reader.py line 41
    ld_result,
    PYMATGEN_AVAILABLE,          \* cif_reader.py lines 8-14
    \* ---- find_all_peaks ----
    pf_angles,                   \* the caller's arrays
    pf_intensities,
    min_height,
    min_prominence,
    min_width,
    peak_indices,                \* line 41, numbered from 1
    peak_df,                     \* line 57
    pf_pc,
    pf_result,
    \* ---- fit_peak ----
    fit_angles,                  \* the caller's arrays
    fit_intensities,
    peak_info,
    model_name,
    fit_window_fwhm,
    x_window,                    \* line 82
    y_window,                    \* line 83
    curve_fit_calls,             \* calls of scipy's curve_fit so far
    fit_pc,
    fit_result,
    \* ---- calculate_williamson_hall ----
    peaks_df,                    \* the caller's table of peaks
    x_data,                      \* line 69
    y_data,                      \* line 68
    slope,                       \* line 72
    intercept,
    linregress_calls,            \* calls of scipy's linregress so far
    wh_pc,
    wh_result,
    \* ---- calculate_rir_quantification ----
    phase_data,                  \* the caller's list of dicts
    i_over_rir_sum,              \* line 14
    i_over_rir_values,           \* line 15
    phase_idx,                   \* position of the for loop (line 16), 1-based
    rir_pc,
    rir_result,
    \* ---- XRDData (oneXRD/core/xrd_data.py) ----
    raw_angles,                  \* line 29
    raw_intensities,             \* line 30
    processed_angles,            \* line 33
    processed_intensities,       \* line 34
    background_curve,            \* line 37
    xrd_peaks_df,                \* line 38, self.peaks_df
    caller_intensities,          \* the array the caller passed to the constructor
    constructed,                 \* the arrays as they were at construction
    xd_last,                     \* the last call on the object and how it ended
    \* ---- Project (oneXRD/core/project.py) ----
    db_id,                       \* line 13
    experimental_data,           \* line 14
    reference_data,              \* line 15, the entries as <<name, object>>
    pr_last,                     \* the last call on the project, its arguments and how it ended
    \* ---- DatabaseManager (oneXRD/core/database.py) ----
    experiments,                 \* the rows of table experiments
    raw_data,                    \* the rows of table raw_data
    sqlite_sequence,             \* the largest id AUTOINCREMENT has given out
    originals,                   \* experiment id -> the arrays add_experiment was given
    db_last,                     \* the last call on the manager and how it ended
    \* ---- BatchRunner.run_batch and BatchWindow (plugins/batch_processing) ----
    entries,                     \* what the user typed and ticked in the window
    folder,                      \* the input folder on disk
    all_files,                   \* run_batch: the listing
    all_results,                 \* run_batch: the rows to save
    file_idx,                    \* run_batch: files visited by the loop
    ui,                          \* the window: button, log box, progress bar
    br_pc,                       \* idle, window, listing, loop, save, finally, done
    \* ---- the objects of the running call ----
    heap                         \* which object each local name is bound to, and
                                 \* which objects the call handed back

smVars == <<experimental_peaks, reference_pattern, angle_tolerance, sorted_reference,
            ref_idx, used_exp_indices, matched_peaks_info,
            matched_reference_intensity, total_reference_intensity, sm_pc, sm_result>>
erVars == <<intensities, iterations, background, er_iter, er_pc>>
polyVars == <<poly_n, selected_indices, poly_order, poly_pc, poly_result>>
ldVars == <<file, ld_pc, reader_func, reader_log, reader_outcome, header_rows,
           ld_result, PYMATGEN_AVAILABLE>>
pfVars == <<pf_angles, pf_intensities, min_height, min_prominence, min_width,
           peak_indices, peak_df, pf_pc, pf_result>>
fitVars == <<fit_angles, fit_intensities, peak_info, model_name, fit_window_fwhm,
            x_window, y_window, curve_fit_calls, fit_pc, fit_result>>
whVars == <<peaks_df, x_data, y_data, slope, intercept, linregress_calls, wh_pc,
           wh_result>>
rirVars == <<phase_data, i_over_rir_sum, i_over_rir_values, phase_idx, rir_pc,
            rir_result>>
xdVars == <<raw_angles, raw_intensities, processed_angles, processed_intensities,
           background_curve, xrd_peaks_df, caller_intensities, constructed, xd_last>>
prVars == <<db_id, experimental_data, reference_data, pr_last>>
dbVars == <<experiments, raw_data, sqlite_sequence, originals, db_last>>
brVars == <<entries, folder, all_files, all_results, file_idx, ui, br_pc>>
heapVars == <<heap>>
vars == <<smVars, erVars, polyVars, ldVars, pfVars, fitVars, whVars, rirVars, xdVars, prVars, dbVars, brVars, heapVars>>

\* ------------------------------------------------------------------ bounds
MaxExp == 2          \* rows of the experimental peak table
MaxRef == 2          \* rows of the reference pattern
MaxAngle == 3        \* angles are 0..MaxAngle
MaxIntensity == 2    \* a reference intensity is 1 (weak) or MaxIntensity (strong)
MaxTol == 1          \* angle_tolerance is 0..MaxTol
MaxLen == 3          \* samples of the intensity array given to the erosion
MaxVal == 2          \* erosion intensities are 0..MaxVal (times Scale)
MaxIter == 2         \* iterations is 0..MaxIter
MaxN == 3            \* samples of the series given to subtract_polynomial
MaxSel == 3          \* anchors in selected_indices
MaxOrder == 2        \* poly_order is 0..MaxOrder
MaxCount == 2        \* Bruker: the header's COUNT and the floats of the payload
MaxPoints == 2       \* XRDML and CIF: numbers in an element, peaks of a pattern
MaxLines == 3        \* lines of a text file
MaxSamples == 5      \* samples of the series given to find_all_peaks
MaxFitSamples == 6   \* samples of the series given to fit_peak
MaxFwhm == 2         \* fit_peak: the peak's fwhm_angle is 0..MaxFwhm
MaxPeaks == 3        \* rows of the table given to calculate_williamson_hall
MaxBeta == 2         \* Williamson-Hall: a peak's fwhm_angle is -1..MaxBeta
MaxPhases == 2       \* phases of the list given to calculate_rir_quantification
MaxXrd == 2          \* samples of the series an XRDData object holds
MaxDbId == 2         \* Project: the db_id given to load_experimental_data is 1..MaxDbId
MaxArr == 2          \* DatabaseManager: elements of a stored array
MaxExperiments == 2  \* DatabaseManager: experiments ever added to one database
MaxFiles == 2        \* run_batch: files in the input folder

\* ------------------------------------------------------------------ helpers
SeqsUpTo(S, n) == UNION {[1..k -> S] : k \in 0..n}

Abs(x) == IF x < 0 THEN -x ELSE x

RECURSIVE SumSeq(_)
SumSeq(s) == IF s = <<>> THEN 0 ELSE Head(s) + SumSeq(Tail(s))

Indices(s) == 1..Len(s)

NoResult == [kind |-> "none"]

\* ---- object identity --------------------------------------------------
\* The object the caller passed as the argument `name`.
Arg(name) == [owner |-> "caller", site |-> name]

\* An object allocated by the statement at `site` ("what:line").
New(site) == [owner |-> "callee", site |-> site]

\* np.copy(a): a new array.
NpCopy(obj, site) == New(site)

\* a[index list], a[index array], a[boolean mask]: advanced indexing, which
\* always copies.
Take(obj, site) == New(site)

SortValuesInPlace(obj, site) == obj

\* DataFrame.sort_values(...) with inplace left at False, and reset_index:
\* a new frame.
SortValues(obj, site) == New(site)

\* No call is running.
NoObjects == [bound |-> {}, returned |-> {}]

\* On entry each parameter names the caller's object.
Args(names) == [bound |-> {<<n, Arg(n)>> : n \in names}, returned |-> {}]

\* name = <expression>, for each <<name, object>> of pairs.
Bind(h, pairs) ==
    [h EXCEPT !.bound = {b \in h.bound : \A q \in pairs : q[1] # b[1]} \cup pairs]

ObjOf(h, name) == (CHOOSE b \in h.bound : b[1] = name)[2]

\* return <objects>.
Returning(h, objs) == [h EXCEPT !.returned = objs]

\* =========================================================================
\* perform_search_match (oneXRD/analysis/search_match.py)
\* =========================================================================

\* The rows of a reference table with the given columns; a table that lacks
\* both columns still has rows (of some other column).
RefIntensities == {1, MaxIntensity}

RefRows(cols) ==
    IF cols = {"angle", "intensity"} THEN [angle : 0..MaxAngle, intensity : RefIntensities]
    ELSE IF cols = {"angle"} THEN [angle : 0..MaxAngle]
    ELSE IF cols = {"intensity"} THEN [intensity : RefIntensities]
    ELSE [d_spacing : {1}]

RowKey(r) == r.angle * (MaxIntensity + 1) + r.intensity

\* Line 45 sorts the reference before any other use of its row order, and
\* ties of that sort may come out in any order, so only the multiset of rows
\* matters: each multiset is drawn once, listed by ascending (angle, intensity).
ReferenceTables ==
    {[columns |-> {"angle", "intensity"}, rows |-> s] :
        s \in {t \in SeqsUpTo(RefRows({"angle", "intensity"}), MaxRef) :
                 \A i \in 1..(Len(t) - 1) : RowKey(t[i]) <= RowKey(t[i + 1])}}
    \cup UNION {{[columns |-> c, rows |-> s] : s \in SeqsUpTo(RefRows(c), 1)} :
                  c \in {{"angle"}, {"intensity"}, {}}}

\* An experimental table is a list of rows labelled 1..n (the default index);
\* the only column the matcher reads is 'angle'.
ExperimentalTables ==
    {[columns |-> {"angle"}, rows |-> s] : s \in SeqsUpTo([angle : 0..MaxAngle], MaxExp)}
    \cup {[columns |-> {"intensity"}, rows |-> s] : s \in SeqsUpTo([intensity : {1}], 1)}

\* sort_values(by='intensity', ascending=False): the default sort kind is not
\* stable, so every descending arrangement of the rows is a possible outcome.
Permutations1(n) == {p \in [1..n -> 1..n] : \A i, j \in 1..n : p[i] = p[j] => i = j}

\* (variant: ascending=True, the weakest row first)
SortByIntensityAscending(rows) ==
    {[i \in Indices(rows) |-> rows[p[i]]] :
        p \in {q \in Permutations1(Len(rows)) :
                \A i, j \in Indices(rows) :
                    i < j => rows[q[i]].intensity <= rows[q[j]].intensity}}

SortByIntensityDescending(rows) ==
    {[i \in Indices(rows) |-> rows[p[i]]] :
        p \in {q \in Permutations1(Len(rows)) :
                \A i, j \in Indices(rows) :
                    i < j => rows[q[i]].intensity >= rows[q[j]].intensity}}

\* Lines 63-66: the rows inside the closed window.
\* (variant: the window taken open, as with < and > in lines 64-65)
InWindowStrict(exp_angle, ref_angle, tol) ==
    /\ exp_angle > ref_angle - tol
    /\ exp_angle < ref_angle + tol

InWindow(exp_angle, ref_angle, tol) ==
    /\ exp_angle >= ref_angle - tol
    /\ exp_angle <= ref_angle + tol

\* Line 69: rows whose label is already used are dropped.
\* (variant: line 69 left out)
ExcludeNothing(rowset, used) == rowset

ExcludeUsed(rowset, used) == rowset \ used

PotentialMatches(exp_rows, ref_angle, tol, used) ==
    ExcludeUsed({i \in Indices(exp_rows) : InWindow(exp_rows[i].angle, ref_angle, tol)}, used)

\* Line 73: argmin of |angle - ref_angle| over the candidates; argmin returns
\* the first (lowest row) of the minima.
\* (variant: the last of the minima)
ClosestMatchLastOnTie(exp_rows, cands, ref_angle) ==
    CHOOSE i \in cands :
        \A j \in cands :
            \/ Abs(exp_rows[i].angle - ref_angle) < Abs(exp_rows[j].angle - ref_angle)
            \/ /\ Abs(exp_rows[i].angle - ref_angle) = Abs(exp_rows[j].angle - ref_angle)
               /\ i >= j

ClosestMatch(exp_rows, cands, ref_angle) ==
    CHOOSE i \in cands :
        \A j \in cands :
            \/ Abs(exp_rows[i].angle - ref_angle) < Abs(exp_rows[j].angle - ref_angle)
            \/ /\ Abs(exp_rows[i].angle - ref_angle) = Abs(exp_rows[j].angle - ref_angle)
               /\ i <= j

\* Line 87: the running total after a match.
\* (variant: = in place of +=)
AccumulateOverwrites(total, ref_intensity) == ref_intensity

AccumulateMatched(total, ref_intensity) == total + ref_intensity

\* Line 94: (matched / total) * 100.0 as an exact fraction.
FigureOfMerit(matched, total) == [num |-> matched * 100, den |-> total]

Zero == [num |-> 0, den |-> 1]

EmptyFrame == <<>>

SM_Idle ==
    /\ experimental_peaks = [columns |-> {}, rows |-> <<>>]
    /\ reference_pattern = [columns |-> {}, rows |-> <<>>]
    /\ angle_tolerance = 0
    /\ sorted_reference = <<>>
    /\ ref_idx = 0
    /\ used_exp_indices = {}
    /\ matched_peaks_info = <<>>
    /\ matched_reference_intensity = 0
    /\ total_reference_intensity = 0
    /\ sm_pc = "idle"
    /\ sm_result = NoResult

SM_Init ==
    /\ experimental_peaks \in ExperimentalTables
    /\ reference_pattern \in ReferenceTables
    /\ angle_tolerance \in 0..MaxTol
    /\ sorted_reference = <<>>
    /\ ref_idx = 0
    /\ used_exp_indices = {}
    /\ matched_peaks_info = <<>>
    /\ matched_reference_intensity = 0
    /\ total_reference_intensity = 0
    /\ sm_pc = "start"
    /\ sm_result = NoResult
    /\ heap = Args({"experimental_peaks", "reference_pattern"})

\* Lines 36-37: the experimental table lacks 'angle'.
SM_RaiseExperimentalColumns ==
    /\ sm_pc = "start"
    /\ "angle" \notin experimental_peaks.columns
    /\ sm_pc' = "done"
    /\ sm_result' = [kind |-> "raise", error |-> "SearchMatchError",
                     msg |-> "Experimental peaks DataFrame must contain 'angle' column."]
    /\ UNCHANGED <<experimental_peaks, reference_pattern, angle_tolerance,
                   sorted_reference, ref_idx, used_exp_indices, matched_peaks_info,
                   matched_reference_intensity, total_reference_intensity>>
    /\ UNCHANGED <<erVars, polyVars, ldVars, pfVars, fitVars, whVars, rirVars, xdVars, prVars, dbVars, brVars, heapVars>>

\* Lines 38-39: the reference lacks 'angle' or 'intensity'.
SM_RaiseReferenceColumns ==
    /\ sm_pc = "start"
    /\ "angle" \in experimental_peaks.columns
    /\ ~({"angle", "intensity"} \subseteq reference_pattern.columns)
    /\ sm_pc' = "done"
    /\ sm_result' = [kind |-> "raise", error |-> "SearchMatchError",
                     msg |-> "Reference pattern DataFrame must contain 'angle' and 'intensity' columns."]
    /\ UNCHANGED <<experimental_peaks, reference_pattern, angle_tolerance,
                   sorted_reference, ref_idx, used_exp_indices, matched_peaks_info,
                   matched_reference_intensity, total_reference_intensity>>
    /\ UNCHANGED <<erVars, polyVars, ldVars, pfVars, fitVars, whVars, rirVars, xdVars, prVars, dbVars, brVars, heapVars>>

\* Lines 41-42: an empty reference returns at once.
\* (variant: an empty reference treated as an error)
SM_RejectEmptyReference ==
    /\ sm_pc = "start"
    /\ "angle" \in experimental_peaks.columns
    /\ {"angle", "intensity"} \subseteq reference_pattern.columns
    /\ reference_pattern.rows = <<>>
    /\ sm_pc' = "done"
    /\ sm_result' = [kind |-> "raise", error |-> "SearchMatchError",
                     msg |-> "Reference pattern is empty."]
    /\ UNCHANGED <<experimental_peaks, reference_pattern, angle_tolerance,
                   sorted_reference, ref_idx, used_exp_indices, matched_peaks_info,
                   matched_reference_intensity, total_reference_intensity>>
    /\ UNCHANGED <<erVars, polyVars, ldVars, pfVars, fitVars, whVars, rirVars, xdVars, prVars, dbVars, brVars, heapVars>>

SM_ReturnEmptyReference ==
    /\ sm_pc = "start"
    /\ "angle" \in experimental_peaks.columns
    /\ {"angle", "intensity"} \subseteq reference_pattern.columns
    /\ reference_pattern.rows = <<>>
    /\ sm_pc' = "done"
    /\ sm_result' = [kind |-> "return", fom |-> Zero, matches |-> EmptyFrame]
    /\ UNCHANGED <<experimental_peaks, reference_pattern, angle_tolerance,
                   sorted_reference, ref_idx, used_exp_indices, matched_peaks_info,
                   matched_reference_intensity, total_reference_intensity>>
    /\ UNCHANGED <<erVars, polyVars, ldVars, pfVars, fitVars, whVars, rirVars, xdVars, prVars, dbVars, brVars>>
    /\ heap' = Returning(heap, {New("pd.DataFrame:42")})

\* Lines 44-52: sort, total, empty bookkeeping.
SM_Sort ==
    /\ sm_pc = "start"
    /\ "angle" \in experimental_peaks.columns
    /\ {"angle", "intensity"} \subseteq reference_pattern.columns
    /\ reference_pattern.rows # <<>>
    /\ sorted_reference' \in SortByIntensityDescending(reference_pattern.rows)
    /\ matched_peaks_info' = <<>>
    /\ total_reference_intensity' =
           SumSeq([i \in Indices(reference_pattern.rows) |-> reference_pattern.rows[i].intensity])
    /\ matched_reference_intensity' = 0
    /\ used_exp_indices' = {}
    /\ ref_idx' = 1
    /\ sm_pc' = "loop"
    \* the caller's table is reordered only if the sort works on it in place
    /\ reference_pattern' =
           IF SortValues(ObjOf(heap, "reference_pattern"), "sort_values:45")
                  = ObjOf(heap, "reference_pattern")
           THEN [reference_pattern EXCEPT !.rows = sorted_reference']
           ELSE reference_pattern
    /\ UNCHANGED <<experimental_peaks, angle_tolerance, sm_result>>
    /\ UNCHANGED <<erVars, polyVars, ldVars, pfVars, fitVars, whVars, rirVars, xdVars, prVars, dbVars, brVars>>
    /\ heap' = Bind(heap, {<<"reference_pattern",
                              SortValues(ObjOf(heap, "reference_pattern"), "sort_values:45")>>,
                            <<"matched_peaks_info", New("list:47")>>,
                            <<"used_exp_indices", New("set:52")>>})

\* Lines 54-87: one pass of the for loop.
SM_Iterate ==
    /\ sm_pc = "loop"
    /\ ref_idx <= Len(sorted_reference)
    /\ LET ref_peak == sorted_reference[ref_idx]
           ref_angle == ref_peak.angle
           ref_intensity == ref_peak.intensity
           potential_matches ==
               PotentialMatches(experimental_peaks.rows, ref_angle,
                                angle_tolerance, used_exp_indices)
       IN  IF potential_matches # {}
           THEN LET closest_match ==
                        ClosestMatch(experimental_peaks.rows, potential_matches, ref_angle)
                IN  /\ used_exp_indices' = used_exp_indices \cup {closest_match}
                    /\ matched_peaks_info' =
                           Append(matched_peaks_info,
                                  [exp_angle |-> experimental_peaks.rows[closest_match].angle,
                                   ref_angle |-> ref_angle,
                                   ref_intensity |-> ref_intensity,
                                   delta_angle |->
                                       experimental_peaks.rows[closest_match].angle - ref_angle,
                                   \* not columns of the table: the rows the record joins
                                   exp_row |-> closest_match,
                                   ref_row |-> ref_idx])
                    /\ matched_reference_intensity' =
                           AccumulateMatched(matched_reference_intensity, ref_intensity)
           ELSE UNCHANGED <<used_exp_indices, matched_peaks_info,
                            matched_reference_intensity>>
    /\ ref_idx' = ref_idx + 1
    /\ UNCHANGED <<experimental_peaks, reference_pattern, angle_tolerance,
                   sorted_reference, total_reference_intensity, sm_pc, sm_result>>
    /\ UNCHANGED <<erVars, polyVars, ldVars, pfVars, fitVars, whVars, rirVars, xdVars, prVars, dbVars, brVars, heapVars>>

\* Lines 89-98: the loop is over.
SM_Return ==
    /\ sm_pc = "loop"
    /\ ref_idx > Len(sorted_reference)
    /\ sm_result' =
           IF matched_peaks_info = <<>>
           THEN [kind |-> "return", fom |-> Zero, matches |-> EmptyFrame]
           ELSE [kind |-> "return",
                 fom |-> FigureOfMerit(matched_reference_intensity,
                                       total_reference_intensity),
                 matches |-> matched_peaks_info]
    /\ sm_pc' = "done"
    /\ UNCHANGED <<experimental_peaks, reference_pattern, angle_tolerance,
                   sorted_reference, ref_idx, used_exp_indices, matched_peaks_info,
                   matched_reference_intensity, total_reference_intensity>>
    /\ UNCHANGED <<erVars, polyVars, ldVars, pfVars, fitVars, whVars, rirVars, xdVars, prVars, dbVars, brVars>>
    /\ heap' = Returning(heap, {New("pd.DataFrame:90-96")})

SM_Next ==
    \/ SM_RaiseExperimentalColumns
    \/ SM_RaiseReferenceColumns
    \/ SM_ReturnEmptyReference
    \/ SM_Sort
    \/ SM_Iterate
    \/ SM_Return

\* =========================================================================
\* subtract_iterative_erosion (oneXRD/analysis/background.py)
\* =========================================================================

\* One intensity unit: every value stays a whole number through MaxIter halvings.
Scale == 2 ^ MaxIter

Min(a, b) == IF a <= b THEN a ELSE b

Max(a, b) == IF a >= b THEN a ELSE b

\* np.roll(b, 1)[i] is b[i-1] and np.roll(b, -1)[i] is b[i+1], both circular.
RollRight(b) == [i \in Indices(b) |-> b[IF i = 1 THEN Len(b) ELSE i - 1]]

RollLeft(b) == [i \in Indices(b) |-> b[IF i = Len(b) THEN 1 ELSE i + 1]]

\* Line 81.
NeighborsAvg(b) == [i \in Indices(b) |-> (RollRight(b)[i] + RollLeft(b)[i]) \div 2]

\* Line 85: np.minimum(background, neighbors_avg).
\* (variant: np.maximum in place of np.minimum)
ErodeWithMaximum(b) == [i \in Indices(b) |-> Max(b[i], NeighborsAvg(b)[i])]

\* (variant: the points updated one after the other, each seeing the new
\* values of the points before it)
RECURSIVE ErodeFrom(_, _)
ErodeFrom(b, i) ==
    IF i > Len(b) THEN b
    ELSE ErodeFrom([b EXCEPT ![i] = Min(b[i], NeighborsAvg(b)[i])], i + 1)

ErodeInPlace(b) == ErodeFrom(b, 1)

Erode(b) == [i \in Indices(b) |-> Min(b[i], NeighborsAvg(b)[i])]

ER_Idle ==
    /\ intensities = <<>>
    /\ iterations = 0
    /\ background = <<>>
    /\ er_iter = 0
    /\ er_pc = "idle"

ER_Init ==
    /\ intensities \in SeqsUpTo({v * Scale : v \in 0..MaxVal}, MaxLen)
    /\ iterations \in 0..MaxIter
    /\ background = <<>>
    /\ er_iter = 0
    /\ er_pc = "start"
    /\ heap = Args({"intensities"})

\* Line 73: background = np.copy(intensities).
ER_Copy ==
    /\ er_pc = "start"
    /\ background' = intensities
    /\ er_pc' = "loop"
    /\ UNCHANGED <<intensities, iterations, er_iter>>
    /\ UNCHANGED <<smVars, polyVars, ldVars, pfVars, fitVars, whVars, rirVars, xdVars, prVars, dbVars, brVars>>
    /\ heap' = Bind(heap, {<<"background", NpCopy(ObjOf(heap, "intensities"), "np.copy:73")>>})

\* Lines 75-85: one pass of the for loop.
ER_Iterate ==
    /\ er_pc = "loop"
    /\ er_iter < iterations
    /\ background' = Erode(background)
    /\ er_iter' = er_iter + 1
    /\ UNCHANGED <<intensities, iterations, er_pc>>
    /\ UNCHANGED <<smVars, polyVars, ldVars, pfVars, fitVars, whVars, rirVars, xdVars, prVars, dbVars, brVars>>
    /\ heap' = Bind(heap, {<<"background", New("np.minimum:85")>>})

\* Line 87.
ER_Return ==
    /\ er_pc = "loop"
    /\ er_iter >= iterations
    /\ er_pc' = "done"
    /\ UNCHANGED <<intensities, iterations, background, er_iter>>
    /\ UNCHANGED <<smVars, polyVars, ldVars, pfVars, fitVars, whVars, rirVars, xdVars, prVars, dbVars, brVars>>
    /\ heap' = Returning(heap, {ObjOf(heap, "background")})

ER_Next == ER_Copy \/ ER_Iterate \/ ER_Return

\* =========================================================================
\* subtract_polynomial (oneXRD/analysis/background.py)
\* =========================================================================

\* Line 37: the guard that raises.
\* (variants: <= poly_order + 1, and < poly_order)
TooFewAnchorsOffByOne(sel, order) == Len(sel) <= order + 1

TooFewAnchorsStrict(sel, order) == Len(sel) < order

TooFewAnchors(sel, order) == Len(sel) <= order

POLY_Idle ==
    /\ poly_n = 0
    /\ selected_indices = <<>>
    /\ poly_order = 0
    /\ poly_pc = "idle"
    /\ poly_result = NoResult

\* The anchors are indices of samples of the series (0-based, as in the source).
POLY_Init ==
    /\ poly_n \in 1..MaxN
    /\ selected_indices \in SeqsUpTo(0..(poly_n - 1), MaxSel)
    /\ poly_order \in 0..MaxOrder
    /\ poly_pc = "start"
    /\ poly_result = NoResult
    /\ heap = Args({"angles", "intensities", "selected_indices"})

\* Lines 37-38.
POLY_Raise ==
    /\ poly_pc = "start"
    /\ TooFewAnchors(selected_indices, poly_order)
    /\ poly_result' = [kind |-> "raise", error |-> "BackgroundError",
                       at_least |-> poly_order + 1, order |-> poly_order]
    /\ poly_pc' = "done"
    /\ UNCHANGED <<poly_n, selected_indices, poly_order>>
    /\ UNCHANGED <<smVars, erVars, ldVars, pfVars, fitVars, whVars, rirVars, xdVars, prVars, dbVars, brVars, heapVars>>

\* Lines 40-53: the least-squares fit through the anchors, evaluated over the
\* whole angle array; of the curve the model keeps its shape, len(angles).
POLY_Fit ==
    /\ poly_pc = "start"
    /\ ~TooFewAnchors(selected_indices, poly_order)
    /\ poly_result' = [kind |-> "return", shape |-> poly_n]
    /\ poly_pc' = "done"
    /\ UNCHANGED <<poly_n, selected_indices, poly_order>>
    /\ UNCHANGED <<smVars, erVars, ldVars, pfVars, fitVars, whVars, rirVars, xdVars, prVars, dbVars, brVars>>
    /\ heap' = Returning(Bind(heap, {<<"selected_angles",
                                        Take(ObjOf(heap, "angles"), "angles[selected_indices]:41")>>,
                                      <<"selected_intensities",
                                        Take(ObjOf(heap, "intensities"),
                                             "intensities[selected_indices]:42")>>,
                                      <<"background", New("p(angles):51")>>}),
                           {New("p(angles):51")})

POLY_Next == POLY_Raise \/ POLY_Fit

\* =========================================================================
\* The readers (oneXRD/importers/readers) and load_data (oneXRD/importers)
\* =========================================================================

\* ---- files -------------------------------------------------------------
Extensions ==
    {".raw", ".RAW", ".xrdml", ".XRDML", ".cif", ".Cif", ".xy", ".csv", ".txt", ".TXT",
     ".dat", ""}

Filepath(ext) == [dir |-> "data/", stem |-> "scan", ext |-> ext]

\* os.path.basename
Basename(filepath) == [stem |-> filepath.stem, ext |-> filepath.ext]

\* A header field of a Bruker file: the regex of lines 45-47 finds it in the
\* first 2048 bytes, or not.  The text it captures is made of digits (and,
\* for START and STEPSIZE, of dots): a decimal number, written here in
\* hundredths, or a text float() rejects, such as "1.2.3".
Field(S) ==
    {[present |-> FALSE, numeric |-> FALSE, value |-> 0]}
    \cup {[present |-> TRUE, numeric |-> TRUE, value |-> v] : v \in S}

DottedField == [present |-> TRUE, numeric |-> FALSE, value |-> 0]

\* START= 10.0; STEPSIZE= 0.02 or 0.25; the payload is the 32-bit floats
\* stored from byte 2048 on.
BrukerContents ==
    {[kind |-> "bruker", START |-> s, STEPSIZE |-> t, COUNT |-> c, payload |-> p] :
        s \in Field({1000}) \cup {DottedField}, t \in Field({2, 25}),
        c \in Field(0..MaxCount), p \in SeqsUpTo({5, 9}, MaxCount)}

\* The lines of a text file, by what they hold:
\*   blank (empty, or whitespace only); a '#' comment; a '!' or '/' comment;
\*   two numbers separated by blanks, by a comma, by a tab; words that are
\*   not numbers; two numbers separated by blanks after leading blanks; a
\*   '#' comment after leading blanks.
LineKinds ==
    {"blank", "hash", "bang", "ws", "comma", "tab", "junk", "indented", "indented_hash"}

TextContents == {[kind |-> "text", lines |-> l] : l \in SeqsUpTo(LineKinds, MaxLines)}

\* An element of an XRDML file: absent, or present with no text (.text is
\* None), or present with the numbers of its text.
NodeAbsent == [present |-> FALSE, hastext |-> FALSE, values |-> <<>>]

Nodes ==
    {NodeAbsent, [present |-> TRUE, hastext |-> FALSE, values |-> <<>>]}
    \cup {[present |-> TRUE, hastext |-> TRUE, values |-> [i \in 1..k |-> 20 + i]] :
            k \in 0..MaxPoints}

XmlContents ==
    {[kind |-> "xml", wellformed |-> FALSE, scan |-> FALSE, dataPoints |-> FALSE,
      positions |-> NodeAbsent, intensities |-> NodeAbsent, counts |-> NodeAbsent],
     [kind |-> "xml", wellformed |-> TRUE, scan |-> FALSE, dataPoints |-> FALSE,
      positions |-> NodeAbsent, intensities |-> NodeAbsent, counts |-> NodeAbsent],
     [kind |-> "xml", wellformed |-> TRUE, scan |-> TRUE, dataPoints |-> FALSE,
      positions |-> NodeAbsent, intensities |-> NodeAbsent, counts |-> NodeAbsent]}
    \cup {[kind |-> "xml", wellformed |-> TRUE, scan |-> TRUE, dataPoints |-> TRUE,
           positions |-> a, intensities |-> b, counts |-> c] :
            a \in Nodes, b \in Nodes, c \in Nodes}

\* A CIF file: the crystallography library parses it and computes a pattern
\* of at least one peak (scaled to a maximum of 100), or raises.
CifContents ==
    {[kind |-> "cif", parses |-> FALSE, peaks |-> 0]}
    \cup {[kind |-> "cif", parses |-> TRUE, peaks |-> k] : k \in 1..MaxPoints}

Contents == BrukerContents \cup TextContents \cup XmlContents \cup CifContents

NoFile == [kind |-> "missing"]

Files ==
    {[exists |-> TRUE, path |-> Filepath(e), content |-> c] : e \in Extensions, c \in Contents}
    \cup {[exists |-> FALSE, path |-> Filepath(e), content |-> NoFile] : e \in Extensions}

\* ---- results -------------------------------------------------------------
\* Each reader module defines a DataImportError class of its own.
Return(angles, intens) == [kind |-> "return", angles |-> angles, intensities |-> intens]

Raise(cls, msg) == [kind |-> "raise", cls |-> cls, msg |-> msg]

Msg(text) == [text |-> text]

FileNotFoundMsg(filepath) == [text |-> "File not found: {filepath}", filepath |-> filepath]

UnexpectedMsg(text, e) == [text |-> text, e |-> e]

\* ---- read_bruker_raw_v4 (bruker_reader.py) --------------------------------
BrukerError(msg) == Raise("bruker_reader.DataImportError", msg)

\* np.fromfile(f, dtype=np.float32, count=count): at most count floats, fewer
\* when the payload ends first, none for count = 0.
FromFile(payload, count) == SubSeq(payload, 1, Min(count, Len(payload)))

\* ---- single precision (dtype=np.float32, line 69) --------------------------
\* A 32-bit float is [m, e], the number m * 2^(-e), with m = 0 or
\* 2^23 <= m < 2^24; results are rounded to nearest, ties to even.
MantissaBits == 24

\* The header numbers are decimal text, written in units of 1 / Decimals.
Decimals == 100

F32Zero == [m |-> 0, e |-> 0]

\* n / d rounded to the nearest integer, ties to even.
RoundHalfEven(n, d) ==
    LET q == n \div d
        r == n % d
    IN  IF 2 * r < d THEN q
        ELSE IF 2 * r > d THEN q + 1
        ELSE IF q % 2 = 0 THEN q ELSE q + 1

\* A rounded mantissa that reached 2^24 moves to the next binade.
Renormalize(m, e) ==
    IF m = 2 ^ MantissaBits THEN [m |-> 2 ^ (MantissaBits - 1), e |-> e - 1]
    ELSE [m |-> m, e |-> e]

\* The least e with n * 2^e >= d * 2^23, for 0 < n < d * 2^23.
RECURSIVE BinadeOf(_, _)
BinadeOf(n, d) ==
    IF n >= d * 2 ^ (MantissaBits - 1) THEN 0 ELSE 1 + BinadeOf(2 * n, d)

\* The 32-bit float nearest to n / d.
Float32(n, d) ==
    IF n = 0 THEN F32Zero
    ELSE LET e == BinadeOf(n, d)
         IN  Renormalize(RoundHalfEven(n * 2 ^ e, d), e)

\* The number of bits by which n exceeds a 24-bit mantissa.
RECURSIVE ExcessBits(_)
ExcessBits(n) == IF n < 2 ^ MantissaBits THEN 0 ELSE 1 + ExcessBits(n \div 2)

\* arange(count, dtype=float32)[i] * step_size: the product of the integer
\* i and a 32-bit float, rounded to 32 bits.
F32Times(i, x) ==
    IF i = 0 \/ x.m = 0 THEN F32Zero
    ELSE LET n == i * x.m
             k == ExcessBits(n)
         IN  Renormalize(RoundHalfEven(n, 2 ^ k), x.e - k)

\* The sum of two 32-bit floats, rounded to 32 bits.  The smaller one is
\* split at the unit of the larger; its remainder decides the rounding.
F32Plus(x, y) ==
    IF x.m = 0 THEN y
    ELSE IF y.m = 0 THEN x
    ELSE LET hi == IF x.e <= y.e THEN x ELSE y
             lo == IF x.e <= y.e THEN y ELSE x
             d == lo.e - hi.e
             t == hi.m + (lo.m \div 2 ^ d)
             r == lo.m % 2 ^ d
         IN  IF t < 2 ^ MantissaBits
             THEN Renormalize(
                      IF 2 * r > 2 ^ d \/ (2 * r = 2 ^ d /\ t % 2 = 1) THEN t + 1 ELSE t,
                      hi.e)
             ELSE LET half == t \div 2
                  IN  Renormalize(
                          IF t % 2 = 1 /\ (r > 0 \/ half % 2 = 1) THEN half + 1 ELSE half,
                          hi.e - 1)

\* Line 69: np.arange(count, dtype=np.float32) * step_size + start_angle.
BrukerAngles(count, step_size, start_angle) ==
    [i \in 1..count |->
        F32Plus(F32Times(i - 1, Float32(step_size, Decimals)),
                Float32(start_angle, Decimals))]

\* Lines 64-66: the read count must equal the header's COUNT.
BrukerSizeMismatch(read, count) == Len(read) # count

\* (variant: STEPSIZE left out of the test of line 49)
MissingMetadataButStep(c) == ~(c.START.present /\ c.COUNT.present)

\* Line 49: one of the three patterns did not match.
MissingMetadata(c) == ~(c.START.present /\ c.STEPSIZE.present /\ c.COUNT.present)

BrukerMalformed ==
    BrukerError(Msg("File is not a valid Bruker RAW v4 file. Missing essential metadata in the header."))

read_bruker_raw_v4(f) ==
    IF ~f.exists THEN {BrukerError(FileNotFoundMsg(f.path))}                   \* 74-75
    \* a file of another format holds none of the three header fields
    ELSE IF f.content.kind # "bruker" THEN {BrukerMalformed}
    ELSE LET c == f.content IN
         IF MissingMetadata(c) THEN {BrukerMalformed}                          \* 49-51
         ELSE IF ~(c.START.numeric /\ c.STEPSIZE.numeric)                      \* 53-54, 76-79
         THEN {BrukerError(UnexpectedMsg("An unexpected error occurred while reading the Bruker file: {e}",
                                         "ValueError"))}
         ELSE LET count == c.COUNT.value
                  read == FromFile(c.payload, count)                           \* 59-62
              IN  IF BrukerSizeMismatch(read, count)                           \* 64-66
                  THEN {BrukerError([text |-> "Data corruption: Header specified {count} points, but only {len(intensities)} could be read.",
                                     count |-> count, read |-> Len(read)])}
                  ELSE {Return(BrukerAngles(count, c.STEPSIZE.value, c.START.value),  \* 69
                               read)}

\* ---- read_generic_text_file (generic_reader.py) ---------------------------
GenericError(msg) == Raise("generic_reader.DataImportError", msg)

\* The first character of a line: none, '#', '!' (or '/'), a blank, a
\* digit or a letter.
FirstChar(kind) ==
    CASE kind = "blank" -> ""
      [] kind = "hash" -> "#"
      [] kind = "bang" -> "!"
      [] kind \in {"indented", "indented_hash"} -> " "
      [] kind = "junk" -> "x"
      [] OTHER -> "1"

\* Line 44: line.strip().
Strip(kind) ==
    CASE kind = "indented" -> "ws"
      [] kind = "indented_hash" -> "hash"
      [] OTHER -> kind

\* Lines 44-46: the stripped line is empty or starts with '#', '!', '/', ' '.
IsHeaderLine(kind) ==
    LET line == Strip(kind)
    IN  line = "blank" \/ FirstChar(line) \in {"#", "!", "/", " "}

\* Lines 41-50: the leading run of header lines.
RECURSIVE HeaderRows(_)
HeaderRows(lines) ==
    IF lines # <<>> /\ IsHeaderLine(Head(lines)) THEN 1 + HeaderRows(Tail(lines)) ELSE 0

\* np.loadtxt on one line: it drops blank lines and '#' comments, splits the
\* others at the delimiter and converts every token to float.
LoadTxtLine(kind, delimiter) ==
    IF kind \in {"blank", "hash", "indented_hash"} THEN "skipped"
    ELSE IF kind \in {"ws", "indented"} /\ delimiter = "whitespace" THEN "row"
    ELSE IF kind = "tab" /\ delimiter \in {"whitespace", "tab"} THEN "row"
    ELSE IF kind = "comma" /\ delimiter = "comma" THEN "row"
    ELSE "ValueError"

\* np.loadtxt(filepath, skiprows, delimiter): the number of rows parsed, or
\* ValueError.  Two rows or more give a 2-dimensional array; one row or none
\* gives a 1-dimensional one.
LoadTxt(lines, skiprows, delimiter) ==
    LET rest == SubSeq(lines, skiprows + 1, Len(lines))
        parsed == [i \in Indices(rest) |-> LoadTxtLine(rest[i], delimiter)]
    IN  IF \E i \in Indices(rest) : parsed[i] = "ValueError"
        THEN [error |-> TRUE, rows |-> 0, ndim |-> 0]
        ELSE LET n == Cardinality({i \in Indices(rest) : parsed[i] = "row"})
             IN  [error |-> FALSE, rows |-> n, ndim |-> IF n >= 2 THEN 2 ELSE 1]

Delimiters == <<"whitespace", "comma", "tab">>

\* Lines 53-75: the first delimiter whose array is 2-dimensional wins.
RECURSIVE TryDelimiters(_, _, _)
TryDelimiters(lines, skiprows, k) ==
    IF k > Len(Delimiters)
    THEN GenericError(Msg("Could not parse file. Ensure it is a valid 2-column numeric text file."))
    ELSE LET data == LoadTxt(lines, skiprows, Delimiters[k])
         IN  IF ~data.error /\ data.ndim = 2
             THEN IF data.rows = 0
                  THEN GenericError(Msg("File contains no data points."))
                  ELSE Return([i \in 1..data.rows |-> 10 + i],
                              [i \in 1..data.rows |-> 100 + i])
             ELSE TryDelimiters(lines, skiprows, k + 1)

read_generic_text_file(f) ==
    IF ~f.exists THEN {GenericError(FileNotFoundMsg(f.path))}                  \* 77-78
    ELSE IF f.content.kind = "text"
    THEN {TryDelimiters(f.content.lines, HeaderRows(f.content.lines), 1)}
    ELSE IF f.content.kind = "bruker"
    \* binary bytes: text decoding may fail (lines 79-83) or give unparsable text
    THEN {GenericError(UnexpectedMsg("An unexpected error occurred: {e}", "UnicodeDecodeError")),
          GenericError(Msg("Could not parse file. Ensure it is a valid 2-column numeric text file."))}
    \* XML or CIF text is not a numeric table
    ELSE {GenericError(Msg("Could not parse file. Ensure it is a valid 2-column numeric text file."))}

\* ---- read_panalytical_xrdml (panalytical_reader.py) -----------------------
XrdmlError(msg) == Raise("panalytical_reader.DataImportError", msg)

XrdmlParseError(f) ==
    XrdmlError([text |-> "Failed to parse XML in '{basename}'. The file may be corrupted.",
                basename |-> Basename(f.path)])

read_panalytical_xrdml(f) ==
    IF ~f.exists THEN {XrdmlError(FileNotFoundMsg(f.path))}                    \* 86-87
    ELSE IF f.content.kind # "xml" THEN {XrdmlParseError(f)}                   \* 88-89
    ELSE LET c == f.content
             intensities_node ==                                               \* 62-64
                 IF c.intensities.present THEN c.intensities ELSE c.counts
         IN  IF ~c.wellformed THEN {XrdmlParseError(f)}
             ELSE IF ~c.scan
             THEN {XrdmlError(Msg("Could not find a <scan> element in the file."))}
             ELSE IF ~c.dataPoints
             THEN {XrdmlError(Msg("Could not find a <dataPoints> element in the scan."))}
             ELSE IF ~c.positions.present
             THEN {XrdmlError(Msg("Could not find <positions> for 2Theta axis."))}
             ELSE IF ~intensities_node.present
             THEN {XrdmlError(Msg("Could not find <intensities> or <counts> data."))}
             ELSE IF ~c.positions.hastext \/ ~intensities_node.hastext         \* 70-71, 90-93
             THEN {XrdmlError(UnexpectedMsg("An unexpected error occurred: {e}", "AttributeError"))}
             ELSE IF Len(c.positions.values) # Len(intensities_node.values)    \* 76-78
             THEN {XrdmlError(Msg("Data corruption: The number of angle points does not match the number of intensity points."))}
             ELSE IF Len(c.positions.values) = 0                               \* 80-81
             THEN {XrdmlError(Msg("No data points found in the file."))}
             ELSE {Return(c.positions.values, intensities_node.values)}

\* ---- read_cif_file (cif_reader.py) ----------------------------------------
CifError(msg) == Raise("cif_reader.DataImportError", msg)

read_cif_file(f, pymatgen) ==
    IF ~pymatgen                                                               \* 51-53
    THEN {CifError(Msg("The Pymatgen library is required to read CIF files. Please install it: 'pip install pymatgen'"))}
    ELSE IF ~f.exists THEN {CifError(FileNotFoundMsg(f.path))}                 \* 73-74
    ELSE IF f.content.kind # "cif" \/ ~f.content.parses                        \* 75-77
    THEN {CifError([text |-> "Failed to parse CIF file '{basename}'. Error: {e}",
                    basename |-> Basename(f.path)])}
    ELSE {Return([i \in 1..f.content.peaks |-> 30 + i],                        \* 64-71
                 [i \in 1..f.content.peaks |-> IF i = 1 THEN 100 ELSE 50])}

\* ---- load_data (importers/__init__.py) ------------------------------------
NoReader == "None"

\* (variant: line 49 left out)
LowerLeftOut(ext) == ext

\* str.lower() on the extensions of the model.
Lower(ext) ==
    CASE ext = ".RAW" -> ".raw"
      [] ext = ".XRDML" -> ".xrdml"
      [] ext = ".Cif" -> ".cif"
      [] ext = ".TXT" -> ".txt"
      [] OTHER -> ext

\* Lines 14-22, and .get() of line 52.
READER_MAPPING(extension) ==
    CASE extension = ".raw" -> "read_bruker_raw_v4"
      [] extension = ".xrdml" -> "read_panalytical_xrdml"
      [] extension = ".cif" -> "read_cif_file"
      [] extension \in {".xy", ".csv", ".txt"} -> "read_generic_text_file"
      [] OTHER -> NoReader

\* What a call of the reader can return or raise.
Invoke(reader, f, pymatgen) ==
    CASE reader = "read_bruker_raw_v4" -> read_bruker_raw_v4(f)
      [] reader = "read_panalytical_xrdml" -> read_panalytical_xrdml(f)
      [] reader = "read_cif_file" -> read_cif_file(f, pymatgen)
      [] OTHER -> read_generic_text_file(f)

\* Line 4: the DataImportError that load_data names is generic_reader's class.
LoadDataImportError == "generic_reader.DataImportError"

\* Lines 54-67: the try/except around the reader call.
HandleReaderOutcome(out, filepath) ==
    IF out.kind = "return" THEN out
    ELSE IF out.cls = LoadDataImportError THEN out                           \* 62-64
    ELSE Raise(LoadDataImportError,                                          \* 65-67
               [text |-> "An unexpected error occurred while processing '{basename}': {e}",
                basename |-> Basename(filepath), inner |-> out.msg])

\* Line 44: os.path.exists(filepath).
\* (variant: lines 44-45 left out)
PathNotChecked(f) == TRUE

PathChecked(f) == f.exists

LD_Idle ==
    /\ file = [exists |-> FALSE, path |-> Filepath(""), content |-> NoFile]
    /\ ld_pc = "idle"
    /\ reader_func = NoReader
    /\ reader_log = <<>>
    /\ reader_outcome = NoResult
    /\ header_rows = 0
    /\ ld_result = NoResult
    /\ PYMATGEN_AVAILABLE = FALSE

LD_Init ==
    /\ file \in Files
    /\ PYMATGEN_AVAILABLE \in BOOLEAN
    /\ ld_pc = "start"
    /\ reader_func = NoReader
    /\ reader_log = <<>>
    /\ reader_outcome = NoResult
    /\ header_rows = 0
    /\ ld_result = NoResult
    /\ heap = NoObjects

\* Lines 44-45.
LD_RaiseNotFound ==
    /\ ld_pc = "start"
    /\ ~PathChecked(file)
    /\ ld_result' = Raise(LoadDataImportError, FileNotFoundMsg(file.path))
    /\ ld_pc' = "done"
    /\ UNCHANGED <<file, reader_func, reader_log, reader_outcome, header_rows,
                   PYMATGEN_AVAILABLE>>
    /\ UNCHANGED <<smVars, erVars, polyVars, pfVars, fitVars, whVars, rirVars, xdVars, prVars, dbVars, brVars, heapVars>>

\* Lines 47-52.
LD_SelectReader ==
    /\ ld_pc = "start"
    /\ PathChecked(file)
    /\ reader_func' = READER_MAPPING(Lower(file.path.ext))
    /\ ld_pc' = "try"
    /\ UNCHANGED <<file, reader_log, reader_outcome, header_rows, ld_result,
                   PYMATGEN_AVAILABLE>>
    /\ UNCHANGED <<smVars, erVars, polyVars, pfVars, fitVars, whVars, rirVars, xdVars, prVars, dbVars, brVars, heapVars>>

\* Lines 54-67: the reader call and what load_data makes of its outcome.
LD_CallReader ==
    /\ ld_pc = "try"
    /\ LET reader == IF reader_func # NoReader THEN reader_func
                     ELSE "read_generic_text_file"
       IN  /\ reader_log' = Append(reader_log, reader)
           /\ header_rows' = IF reader = "read_generic_text_file" /\ file.content.kind = "text"
                             THEN HeaderRows(file.content.lines)
                             ELSE header_rows
           /\ \E out \in Invoke(reader, file, PYMATGEN_AVAILABLE) :
                /\ reader_outcome' = out
                /\ ld_result' = HandleReaderOutcome(out, file.path)
    /\ ld_pc' = "done"
    /\ UNCHANGED <<file, reader_func, PYMATGEN_AVAILABLE>>
    /\ UNCHANGED <<smVars, erVars, polyVars, pfVars, fitVars, whVars, rirVars, xdVars, prVars, dbVars, brVars, heapVars>>

LD_Next == LD_RaiseNotFound \/ LD_SelectReader \/ LD_CallReader

\* =========================================================================
\* find_all_peaks (oneXRD/analysis/peak_finding.py)
\* =========================================================================

\* The intensity of a sample.
SampleValues == {0, 1, 2}

\* A threshold argument: None (unset), or a number.
Unset == [set |-> FALSE, value |-> 0]

ThresholdArgs == {Unset} \cup {[set |-> TRUE, value |-> v] : v \in {1, 2}}

\* The angle axis of a series of n samples: ascending, descending, or one
\* that runs down and up again, so that two samples share an angle.
AngleAxes(n) ==
    {[i \in 1..n |-> i], [i \in 1..n |-> n + 1 - i], [i \in 1..n |-> Abs(2 * i - n - 1)]}

\* scipy.signal.find_peaks, local maxima: a sample, or the middle (rounded
\* down) of a flat run of samples, with a lower sample on either side.  The
\* first and the last sample are never maxima.  Samples are numbered from 1.
LocalMaxima(x) ==
    {(lr[1] + lr[2]) \div 2 :
        lr \in {q \in (2..(Len(x) - 1)) \X (2..(Len(x) - 1)) :
                  /\ q[1] <= q[2]
                  /\ x[q[1] - 1] < x[q[1]]
                  /\ \A k \in q[1]..q[2] : x[k] = x[q[1]]
                  /\ x[q[2] + 1] < x[q[2]]}}

\* scipy.signal.peak_prominences: on either side the walk stops below the
\* first sample higher than the peak; the base is the lowest sample of the
\* walk, the nearest one of equal samples; the prominence is the height of
\* the peak over the higher base.
Prominence(x, p) ==
    LET higherL == {j \in 1..(p - 1) : x[j] > x[p]}
        higherR == {j \in (p + 1)..Len(x) : x[j] > x[p]}
        lo == IF higherL = {} THEN 1
              ELSE (CHOOSE j \in higherL : \A k \in higherL : k <= j) + 1
        hi == IF higherR = {} THEN Len(x)
              ELSE (CHOOSE j \in higherR : \A k \in higherR : j <= k) - 1
        left_base == CHOOSE i \in lo..p :
                        /\ \A k \in lo..p : x[i] <= x[k]
                        /\ \A k \in (i + 1)..p : x[i] < x[k]
        right_base == CHOOSE i \in p..hi :
                        /\ \A k \in p..hi : x[i] <= x[k]
                        /\ \A k \in p..(i - 1) : x[i] < x[k]
    IN  [value |-> x[p] - Max(x[left_base], x[right_base]),
         left_base |-> left_base, right_base |-> right_base]

\* scipy.signal.peak_widths at rel_height = 0.5: the width, in samples, of
\* the peak at half its prominence, with linear interpolation between the
\* samples around the crossing; an exact fraction [num, den].
PeakWidth(x, p) ==
    LET prom == Prominence(x, p)
        h2 == 2 * x[p] - prom.value                     \* twice the height
        stopL(i) == i = prom.left_base \/ 2 * x[i] <= h2
        stopR(i) == i = prom.right_base \/ 2 * x[i] <= h2
        li == CHOOSE i \in prom.left_base..p :
                  stopL(i) /\ \A k \in (i + 1)..p : ~stopL(k)
        ri == CHOOSE i \in p..prom.right_base :
                  stopR(i) /\ \A k \in p..(i - 1) : ~stopR(k)
        ln == IF 2 * x[li] < h2 THEN h2 - 2 * x[li] ELSE 0
        ld == IF 2 * x[li] < h2 THEN 2 * (x[li + 1] - x[li]) ELSE 1
        rn == IF 2 * x[ri] < h2 THEN h2 - 2 * x[ri] ELSE 0
        rd == IF 2 * x[ri] < h2 THEN 2 * (x[ri - 1] - x[ri]) ELSE 1
    IN  [num |-> (ri - li) * rd * ld - rn * ld - ln * rd, den |-> rd * ld]

\* (variant: line 65 left out)
SortByAngleLeftOut(rows) == {rows}

\* sort_values(by='angle'): the default sort kind is not stable, so every
\* ascending arrangement of the rows is a possible outcome.
SortByAngle(rows) ==
    {[i \in Indices(rows) |-> rows[p[i]]] :
        p \in {q \in Permutations1(Len(rows)) :
                \A i, j \in Indices(rows) :
                    i < j => rows[q[i]].angle <= rows[q[j]].angle}}

\* The sequence of the numbers of a set, ascending.
Ascending(S) ==
    [i \in 1..Cardinality(S) |-> CHOOSE v \in S : Cardinality({u \in S : u < v}) = i - 1]

\* scipy.signal.find_peaks(x, height, prominence, width): the local maxima
\* that reach every condition given, in ascending order of their sample.
find_peaks(x, height, prominence, width) ==
    Ascending({p \in LocalMaxima(x) :
                 /\ height.set => x[p] >= height.value
                 /\ prominence.set => Prominence(x, p).value >= prominence.value
                 /\ width.set =>
                        PeakWidth(x, p).num >= width.value * PeakWidth(x, p).den})

NaN == [nan |-> TRUE, value |-> 0]

PeakColumns == <<"angle", "intensity", "prominence", "fwhm_angle">>

PF_Idle ==
    /\ pf_angles = <<>>
    /\ pf_intensities = <<>>
    /\ min_height = Unset
    /\ min_prominence = Unset
    /\ min_width = Unset
    /\ peak_indices = <<>>
    /\ peak_df = <<>>
    /\ pf_pc = "idle"
    /\ pf_result = NoResult

PF_Init ==
    /\ \E n \in 0..MaxSamples :
         /\ pf_angles \in AngleAxes(n)
         /\ pf_intensities \in [1..n -> SampleValues]
    /\ min_height \in ThresholdArgs
    /\ min_prominence \in ThresholdArgs
    /\ min_width \in ThresholdArgs
    /\ peak_indices = <<>>
    /\ peak_df = <<>>
    /\ pf_pc = "start"
    /\ pf_result = NoResult
    /\ heap = Args({"angles", "intensities"})

\* Lines 41-46.
PF_FindPeaks ==
    /\ pf_pc = "start"
    /\ peak_indices' = find_peaks(pf_intensities, min_height, min_prominence, min_width)
    /\ pf_pc' = "found"
    /\ UNCHANGED <<pf_angles, pf_intensities, min_height, min_prominence, min_width,
                   peak_df, pf_result>>
    /\ UNCHANGED <<smVars, erVars, polyVars, ldVars, fitVars, whVars, rirVars, xdVars, prVars, dbVars, brVars>>
    /\ heap' = Bind(heap, {<<"peak_indices", New("find_peaks:41")>>})

\* Lines 48-49.
PF_ReturnEmpty ==
    /\ pf_pc = "found"
    /\ Len(peak_indices) = 0
    /\ pf_result' = [kind |-> "return", columns |-> PeakColumns, rows |-> <<>>]
    /\ pf_pc' = "done"
    /\ UNCHANGED <<pf_angles, pf_intensities, min_height, min_prominence, min_width,
                   peak_indices, peak_df>>
    /\ UNCHANGED <<smVars, erVars, polyVars, ldVars, fitVars, whVars, rirVars, xdVars, prVars, dbVars, brVars>>
    /\ heap' = Returning(heap, {New("pd.DataFrame:49")})

\* Lines 52-63: one row per peak index; the field sample records the index
\* the row was made from.
PF_BuildFrame ==
    /\ pf_pc = "found"
    /\ Len(peak_indices) # 0
    /\ LET n == Len(pf_angles)
           row(p) ==
               [angle |-> pf_angles[p],
                intensity |-> pf_intensities[p],
                prominence |->
                    IF min_prominence.set \/ min_width.set
                    THEN [nan |-> FALSE, value |-> Prominence(pf_intensities, p).value]
                    ELSE NaN,
                fwhm_angle |->
                    [num |-> PeakWidth(pf_intensities, p).num * (pf_angles[n] - pf_angles[1]),
                     den |-> PeakWidth(pf_intensities, p).den * (n - 1)],
                sample |-> p]
       IN  peak_df' = [k \in Indices(peak_indices) |-> row(peak_indices[k])]
    /\ pf_pc' = "built"
    /\ UNCHANGED <<pf_angles, pf_intensities, min_height, min_prominence, min_width,
                   peak_indices, pf_result>>
    /\ UNCHANGED <<smVars, erVars, polyVars, ldVars, fitVars, whVars, rirVars, xdVars, prVars, dbVars, brVars>>
    /\ heap' = Bind(heap, {<<"peak_df.angle",
                              Take(ObjOf(heap, "angles"), "angles[peak_indices]:58")>>,
                            <<"peak_df.intensity",
                              Take(ObjOf(heap, "intensities"), "intensities[peak_indices]:59")>>,
                            <<"peak_df", New("pd.DataFrame:57")>>})

\* Lines 65-67.
PF_SortAndReturn ==
    /\ pf_pc = "built"
    /\ \E sorted \in SortByAngle(peak_df) :
         pf_result' = [kind |-> "return", columns |-> PeakColumns, rows |-> sorted]
    /\ pf_pc' = "done"
    /\ UNCHANGED <<pf_angles, pf_intensities, min_height, min_prominence, min_width,
                   peak_indices, peak_df>>
    /\ UNCHANGED <<smVars, erVars, polyVars, ldVars, fitVars, whVars, rirVars, xdVars, prVars, dbVars, brVars>>
    /\ heap' = Returning(heap, {SortValues(ObjOf(heap, "peak_df"), "sort_values:65")})

PF_Next == PF_FindPeaks \/ PF_ReturnEmpty \/ PF_BuildFrame \/ PF_SortAndReturn

\* =========================================================================
\* fit_peak (oneXRD/analysis/fitting.py)
\* =========================================================================

\* Lines 41-45: the keys of MODELS.
MODELS == {"gaussian", "lorentzian", "pseudo_voigt"}

\* Line 85.
MinWindowPoints == 5

\* Lines 79-81: center - fwhm * m / 2 <= angle <= center + fwhm * m / 2, with
\* both sides doubled.
\* (variant: the window taken open)
InFitWindowOpen(angle, center_angle, fwhm, m) ==
    /\ 2 * angle > 2 * center_angle - fwhm * m
    /\ 2 * angle < 2 * center_angle + fwhm * m

InFitWindow(angle, center_angle, fwhm, m) ==
    /\ 2 * angle >= 2 * center_angle - fwhm * m
    /\ 2 * angle <= 2 * center_angle + fwhm * m

\* Lines 81-83: array[window_mask], the masked samples in their order.
RECURSIVE Masked(_, _)
Masked(array, mask) ==
    IF array = <<>> THEN <<>>
    ELSE (IF Head(mask) THEN <<Head(array)>> ELSE <<>>) \o Masked(Tail(array), Tail(mask))

\* (variant: the lorentzian parameters named as the gaussian ones)
ParamNamesAllSigma(model) ==
    IF model = "pseudo_voigt" THEN <<"amplitude", "center", "fwhm", "mixing">>
    ELSE <<"amplitude", "center", "sigma">>

\* Lines 111-116: the names given to popt[0], popt[1], ...
ParamNames(model) ==
    CASE model = "pseudo_voigt" -> <<"amplitude", "center", "fwhm", "mixing">>
      [] model = "gaussian" -> <<"amplitude", "center", "sigma">>
      [] model = "lorentzian" -> <<"amplitude", "center", "gamma">>

\* Lines 19-37: the number of parameters of the model function after x.
NumParams(model) == IF model = "pseudo_voigt" THEN 4 ELSE 3

\* The numbers curve_fit can return for a parameter.
PoptValues == {1, 2}

FittingError(text) == [kind |-> "raise", error |-> "FittingError", msg |-> text]

FIT_Idle ==
    /\ fit_angles = <<>>
    /\ fit_intensities = <<>>
    /\ peak_info = [angle |-> 0, intensity |-> 0, fwhm_angle |-> 0]
    /\ model_name = "pseudo_voigt"
    /\ fit_window_fwhm = 3
    /\ x_window = <<>>
    /\ y_window = <<>>
    /\ curve_fit_calls = 0
    /\ fit_pc = "idle"
    /\ fit_result = NoResult

\* A series on the angle grid 1, 2, ..., a peak record of some angle and
\* width, a model name (one of them not in MODELS), a window multiplier.
FIT_Init ==
    /\ \E n \in 0..MaxFitSamples :
         /\ fit_angles = [i \in 1..n |-> i]
         /\ fit_intensities \in {[i \in 1..n |-> 10 * i], [i \in 1..n |-> 100 - i]}
         /\ peak_info \in [angle : 0..(n + 1), intensity : {50}, fwhm_angle : 0..MaxFwhm]
    /\ model_name \in MODELS \cup {"voigt"}
    /\ fit_window_fwhm \in {1, 2, 3}
    /\ x_window = <<>>
    /\ y_window = <<>>
    /\ curve_fit_calls = 0
    /\ fit_pc = "start"
    /\ fit_result = NoResult
    /\ heap = Args({"angles", "intensities", "peak_info"})

\* Lines 73-74.
FIT_RaiseUnknownModel ==
    /\ fit_pc = "start"
    /\ model_name \notin MODELS
    /\ fit_result' = FittingError("Model '{model_name}' not recognized. Available models: {list(MODELS.keys())}")
    /\ fit_pc' = "done"
    /\ UNCHANGED <<fit_angles, fit_intensities, peak_info, model_name, fit_window_fwhm,
                   x_window, y_window, curve_fit_calls>>
    /\ UNCHANGED <<smVars, erVars, polyVars, ldVars, pfVars, whVars, rirVars, xdVars, prVars, dbVars, brVars, heapVars>>

\* Lines 77-83.
FIT_SelectWindow ==
    /\ fit_pc = "start"
    /\ model_name \in MODELS
    /\ LET window_mask ==
               [i \in Indices(fit_angles) |->
                   InFitWindow(fit_angles[i], peak_info.angle, peak_info.fwhm_angle,
                               fit_window_fwhm)]
       IN  /\ x_window' = Masked(fit_angles, window_mask)
           /\ y_window' = Masked(fit_intensities, window_mask)
    /\ fit_pc' = "window"
    /\ UNCHANGED <<fit_angles, fit_intensities, peak_info, model_name, fit_window_fwhm,
                   curve_fit_calls, fit_result>>
    /\ UNCHANGED <<smVars, erVars, polyVars, ldVars, pfVars, whVars, rirVars, xdVars, prVars, dbVars, brVars>>
    /\ heap' = Bind(heap, {<<"x_window",
                              Take(ObjOf(heap, "angles"), "angles[window_mask]:82")>>,
                            <<"y_window",
                              Take(ObjOf(heap, "intensities"), "intensities[window_mask]:83")>>})

\* Lines 85-86.
FIT_RaiseTooFewPoints ==
    /\ fit_pc = "window"
    /\ Len(x_window) < MinWindowPoints
    /\ fit_result' = FittingError("Not enough data points in the selected window to perform a fit.")
    /\ fit_pc' = "done"
    /\ UNCHANGED <<fit_angles, fit_intensities, peak_info, model_name, fit_window_fwhm,
                   x_window, y_window, curve_fit_calls>>
    /\ UNCHANGED <<smVars, erVars, polyVars, ldVars, pfVars, whVars, rirVars, xdVars, prVars, dbVars, brVars, heapVars>>

\* Lines 89-106: curve_fit raises RuntimeError when the least-squares
\* iteration does not converge.
FIT_RaiseNoConvergence ==
    /\ fit_pc = "window"
    /\ Len(x_window) >= MinWindowPoints
    /\ curve_fit_calls' = curve_fit_calls + 1
    /\ fit_result' = FittingError("Optimal parameters not found. The fit did not converge.")
    /\ fit_pc' = "done"
    /\ UNCHANGED <<fit_angles, fit_intensities, peak_info, model_name, fit_window_fwhm,
                   x_window, y_window>>
    /\ UNCHANGED <<smVars, erVars, polyVars, ldVars, pfVars, whVars, rirVars, xdVars, prVars, dbVars, brVars, heapVars>>

\* Lines 89-118: curve_fit returns popt, one number per parameter of the
\* model; a value of the curve is kept as the term model_func(x, *popt).
FIT_Return ==
    /\ fit_pc = "window"
    /\ Len(x_window) >= MinWindowPoints
    /\ curve_fit_calls' = curve_fit_calls + 1
    /\ \E popt \in [1..NumParams(model_name) -> PoptValues] :
         LET names == ParamNames(model_name)
             fit_curve == [i \in Indices(x_window) |->
                              [model_func |-> model_name, x |-> x_window[i], popt |-> popt]]
             fit_params == [name \in {names[k] : k \in Indices(names)} |->
                              popt[CHOOSE k \in Indices(names) : names[k] = name]]
         IN  fit_result' = [kind |-> "return", fit_params |-> fit_params,
                            x_window |-> x_window, fit_curve |-> fit_curve]
    /\ fit_pc' = "done"
    /\ UNCHANGED <<fit_angles, fit_intensities, peak_info, model_name, fit_window_fwhm,
                   x_window, y_window>>
    /\ UNCHANGED <<smVars, erVars, polyVars, ldVars, pfVars, whVars, rirVars, xdVars, prVars, dbVars, brVars>>
    /\ heap' = Returning(heap, {New("fit_params:110"), ObjOf(heap, "x_window"),
                                New("model_func:109")})

FIT_Next ==
    \/ FIT_RaiseUnknownModel
    \/ FIT_SelectWindow
    \/ FIT_RaiseTooFewPoints
    \/ FIT_RaiseNoConvergence
    \/ FIT_Return

\* =========================================================================
\* calculate_williamson_hall (plugins/microstructure_analysis/analysis.py)
\* =========================================================================

\* The peak angles (2-theta, in degrees, the middle two rounded) whose half
\* angle has a rational sine and cosine: theta = 0, 36.87, 53.13, 90.
TwoThetas == {0, 74, 106, 180}

\* 5 * sin(angle / 2) and 5 * cos(angle / 2).
Sin5(angle) ==
    CASE angle = 0 -> 0 [] angle = 74 -> 3 [] angle = 106 -> 4 [] angle = 180 -> 5

Cos5(angle) ==
    CASE angle = 0 -> 5 [] angle = 74 -> 4 [] angle = 106 -> 3 [] angle = 180 -> 0

\* Lines 44, 80: K * wavelength with the defaults, 0.9 * 1.5406 = 138654 / 10^5.
KLambda == [num |-> 138654, den |-> 100000]

MicrostructureError(text) ==
    [kind |-> "raise", error |-> "MicrostructureError", msg |-> text]

NotANumber == [nan |-> TRUE, num |-> 0, den |-> 1]

\* scipy.stats.linregress: the least-squares line through the points, its
\* slope and intercept as exact fractions over the common denominator
\* n * Sxx - Sx^2.  The denominator is zero when all x are equal; linregress
\* then raises ValueError, or (older releases) divides by zero and returns
\* NaN for both.
Linregress(x, y) ==
    LET n == Len(x)
        Sx == SumSeq(x)
        Sy == SumSeq(y)
        Sxx == SumSeq([i \in Indices(x) |-> x[i] * x[i]])
        Sxy == SumSeq([i \in Indices(x) |-> x[i] * y[i]])
        D == n * Sxx - Sx * Sx
    IN  IF D = 0
        THEN {[raises |-> TRUE, slope |-> NotANumber, intercept |-> NotANumber],
              [raises |-> FALSE, slope |-> NotANumber, intercept |-> NotANumber]}
        ELSE {[raises |-> FALSE,
               slope |-> [nan |-> FALSE, num |-> n * Sxy - Sx * Sy, den |-> D],
               intercept |-> [nan |-> FALSE, num |-> Sy * Sxx - Sx * Sxy, den |-> D]]}

\* Line 78: intercept <= 0 (false for NaN); the denominator is positive.
NonPositive(v) == ~v.nan /\ v.num <= 0

WH_Idle ==
    /\ peaks_df = <<>>
    /\ x_data = <<>>
    /\ y_data = <<>>
    /\ slope = NotANumber
    /\ intercept = NotANumber
    /\ linregress_calls = 0
    /\ wh_pc = "idle"
    /\ wh_result = NoResult

WH_Init ==
    /\ peaks_df \in SeqsUpTo([angle : TwoThetas, fwhm_angle : -1..MaxBeta], MaxPeaks)
    /\ x_data = <<>>
    /\ y_data = <<>>
    /\ slope = NotANumber
    /\ intercept = NotANumber
    /\ linregress_calls = 0
    /\ wh_pc = "start"
    /\ wh_result = NoResult
    /\ heap = NoObjects

\* Lines 59-60.
WH_RaiseTooFewPeaks ==
    /\ wh_pc = "start"
    /\ Len(peaks_df) < 2
    /\ wh_result' = MicrostructureError("Williamson-Hall analysis requires at least 2 peaks.")
    /\ wh_pc' = "done"
    /\ UNCHANGED <<peaks_df, x_data, y_data, slope, intercept, linregress_calls>>
    /\ UNCHANGED <<smVars, erVars, polyVars, ldVars, pfVars, fitVars, rirVars, xdVars, prVars, dbVars, brVars, heapVars>>

\* Lines 62-69: x = 4 sin(theta), kept in units of 4/5; y = beta cos(theta)
\* with beta in radians, kept in units of pi/900.
WH_Coordinates ==
    /\ wh_pc = "start"
    /\ Len(peaks_df) >= 2
    /\ y_data' = [i \in Indices(peaks_df) |-> peaks_df[i].fwhm_angle * Cos5(peaks_df[i].angle)]
    /\ x_data' = [i \in Indices(peaks_df) |-> Sin5(peaks_df[i].angle)]
    /\ wh_pc' = "regress"
    /\ UNCHANGED <<peaks_df, slope, intercept, linregress_calls, wh_result>>
    /\ UNCHANGED <<smVars, erVars, polyVars, ldVars, pfVars, fitVars, rirVars, xdVars, prVars, dbVars, brVars, heapVars>>

\* Line 72, linregress raises: nothing in calculate_williamson_hall catches
\* the ValueError.
WH_LinregressRaises ==
    /\ wh_pc = "regress"
    /\ \E r \in Linregress(x_data, y_data) : r.raises
    /\ linregress_calls' = linregress_calls + 1
    /\ wh_result' = [kind |-> "raise", error |-> "ValueError",
                     msg |-> "Cannot calculate a linear regression if all x values are identical"]
    /\ wh_pc' = "done"
    /\ UNCHANGED <<peaks_df, x_data, y_data, slope, intercept>>
    /\ UNCHANGED <<smVars, erVars, polyVars, ldVars, pfVars, fitVars, rirVars, xdVars, prVars, dbVars, brVars, heapVars>>

\* Lines 72-76, linregress returns.
WH_Linregress ==
    /\ wh_pc = "regress"
    /\ \E r \in Linregress(x_data, y_data) :
         /\ ~r.raises
         /\ slope' = r.slope
         /\ intercept' = r.intercept
    /\ linregress_calls' = linregress_calls + 1
    /\ wh_pc' = "fitted"
    /\ UNCHANGED <<peaks_df, x_data, y_data, wh_result>>
    /\ UNCHANGED <<smVars, erVars, polyVars, ldVars, pfVars, fitVars, rirVars, xdVars, prVars, dbVars, brVars, heapVars>>

\* Lines 78-79.
WH_RaiseNonPositiveIntercept ==
    /\ wh_pc = "fitted"
    /\ NonPositive(intercept)
    /\ wh_result' = MicrostructureError("Fit resulted in a non-positive y-intercept, cannot calculate size.")
    /\ wh_pc' = "done"
    /\ UNCHANGED <<peaks_df, x_data, y_data, slope, intercept, linregress_calls>>
    /\ UNCHANGED <<smVars, erVars, polyVars, ldVars, pfVars, fitVars, rirVars, xdVars, prVars, dbVars, brVars, heapVars>>

\* Lines 80-94: crystallite_size = K * wavelength / intercept, a fraction.
WH_Return ==
    /\ wh_pc = "fitted"
    /\ ~NonPositive(intercept)
    /\ wh_result' =
           [kind |-> "return", x_data |-> x_data, y_data |-> y_data,
            crystallite_size_A |->
                IF intercept.nan THEN NotANumber
                ELSE [nan |-> FALSE, num |-> KLambda.num * intercept.den,
                      den |-> KLambda.den * intercept.num],
            strain |-> slope]
    /\ wh_pc' = "done"
    /\ UNCHANGED <<peaks_df, x_data, y_data, slope, intercept, linregress_calls>>
    /\ UNCHANGED <<smVars, erVars, polyVars, ldVars, pfVars, fitVars, rirVars, xdVars, prVars, dbVars, brVars, heapVars>>

WH_Next ==
    \/ WH_RaiseTooFewPeaks
    \/ WH_Coordinates
    \/ WH_LinregressRaises
    \/ WH_Linregress
    \/ WH_RaiseNonPositiveIntercept
    \/ WH_Return

\* =========================================================================
\* calculate_rir_quantification (plugins/quantitative_analysis/analysis.py)
\* =========================================================================

\* A key of a phase dict: absent, or present with a number.
Key(S) ==
    {[present |-> FALSE, value |-> 0]} \cup {[present |-> TRUE, value |-> v] : v \in S}

IntensityValues == {-1, 0, 1, 2}

RirValues == {-1, 0, 1, 2}

\* What the caller passes: a list of dicts.
PhaseLists == SeqsUpTo([intensity : Key(IntensityValues), rir : Key(RirValues)], MaxPhases)

\* dict.get(key, default).
Get(entry, default) == IF entry.present THEN entry.value ELSE default

\* Line 17.
IntensityOf(phase) == Get(phase.intensity, 0)

RirOfDefaultOne(phase) == Get(phase.rir, 1)

\* Line 18.
RirOf(phase) == Get(phase.rir, 0)

\* Line 21: intensity / rir with rir > 0, an exact fraction.
IOverRir(phase) == [num |-> IntensityOf(phase), den |-> RirOf(phase)]

\* Line 23: the sum of two fractions (denominators positive).
RatPlus(x, y) == [num |-> x.num * y.den + y.num * x.den, den |-> x.den * y.den]

WeightFraction(val, total) ==
    [num |-> val.num * total.den * (IF total.num < 0 THEN -1 ELSE 1),
     den |-> val.den * Abs(total.num)]

\* Line 26: (val / i_over_rir_sum) * 100.0, the denominator kept positive.
WeightPercent(val, total) ==
    [num |-> val.num * total.den * 100 * (IF total.num < 0 THEN -1 ELSE 1),
     den |-> val.den * Abs(total.num)]

QpaError(text) == [kind |-> "raise", error |-> "QpaError", msg |-> text]

RIR_Idle ==
    /\ phase_data = <<>>
    /\ i_over_rir_sum = Zero
    /\ i_over_rir_values = <<>>
    /\ phase_idx = 0
    /\ rir_pc = "idle"
    /\ rir_result = NoResult

RIR_Init ==
    /\ phase_data \in PhaseLists
    /\ i_over_rir_sum = Zero
    /\ i_over_rir_values = <<>>
    /\ phase_idx = 0
    /\ rir_pc = "start"
    /\ rir_result = NoResult
    /\ heap = Args({"phase_data"})

\* Lines 12-13.
RIR_ReturnEmptyInput ==
    /\ rir_pc = "start"
    /\ phase_data = <<>>
    /\ rir_result' = [kind |-> "return", weight_percents |-> <<>>]
    /\ rir_pc' = "done"
    /\ UNCHANGED <<phase_data, i_over_rir_sum, i_over_rir_values, phase_idx>>
    /\ UNCHANGED <<smVars, erVars, polyVars, ldVars, pfVars, fitVars, whVars, xdVars, prVars, dbVars, brVars>>
    /\ heap' = Returning(heap, {New("list:13")})

\* Lines 14-16: the accumulators, and the for loop at its first phase.
RIR_EnterLoop ==
    /\ rir_pc = "start"
    /\ phase_data # <<>>
    /\ i_over_rir_sum' = Zero
    /\ i_over_rir_values' = <<>>
    /\ phase_idx' = 1
    /\ rir_pc' = "loop"
    /\ UNCHANGED <<phase_data, rir_result>>
    /\ UNCHANGED <<smVars, erVars, polyVars, ldVars, pfVars, fitVars, whVars, xdVars, prVars, dbVars, brVars>>
    /\ heap' = Bind(heap, {<<"i_over_rir_values", New("list:15")>>})

\* Lines 17-20, a pass of the loop that raises.
RIR_RaiseNonPositiveRir ==
    /\ rir_pc = "loop"
    /\ phase_idx <= Len(phase_data)
    /\ RirOf(phase_data[phase_idx]) <= 0
    /\ rir_result' = QpaError("RIR value for a phase must be greater than 0.")
    /\ rir_pc' = "done"
    /\ UNCHANGED <<phase_data, i_over_rir_sum, i_over_rir_values, phase_idx>>
    /\ UNCHANGED <<smVars, erVars, polyVars, ldVars, pfVars, fitVars, whVars, xdVars, prVars, dbVars, brVars, heapVars>>

\* Lines 17-23, a pass of the loop that accumulates.
RIR_Accumulate ==
    /\ rir_pc = "loop"
    /\ phase_idx <= Len(phase_data)
    /\ RirOf(phase_data[phase_idx]) > 0
    /\ LET value == IOverRir(phase_data[phase_idx])
       IN  /\ i_over_rir_values' = Append(i_over_rir_values, value)
           /\ i_over_rir_sum' = RatPlus(i_over_rir_sum, value)
    /\ phase_idx' = phase_idx + 1
    /\ UNCHANGED <<phase_data, rir_pc, rir_result>>
    /\ UNCHANGED <<smVars, erVars, polyVars, ldVars, pfVars, fitVars, whVars, xdVars, prVars, dbVars, brVars, heapVars>>

\* Lines 24-25.
RIR_ReturnZeros ==
    /\ rir_pc = "loop"
    /\ phase_idx > Len(phase_data)
    /\ i_over_rir_sum.num = 0
    /\ rir_result' = [kind |-> "return",
                      weight_percents |-> [i \in Indices(phase_data) |-> Zero]]
    /\ rir_pc' = "done"
    /\ UNCHANGED <<phase_data, i_over_rir_sum, i_over_rir_values, phase_idx>>
    /\ UNCHANGED <<smVars, erVars, polyVars, ldVars, pfVars, fitVars, whVars, xdVars, prVars, dbVars, brVars>>
    /\ heap' = Returning(heap, {New("list:25")})

\* Lines 26-27.
RIR_Return ==
    /\ rir_pc = "loop"
    /\ phase_idx > Len(phase_data)
    /\ i_over_rir_sum.num # 0
    /\ rir_result' =
           [kind |-> "return",
            weight_percents |->
                [i \in Indices(i_over_rir_values) |->
                    WeightPercent(i_over_rir_values[i], i_over_rir_sum)]]
    /\ rir_pc' = "done"
    /\ UNCHANGED <<phase_data, i_over_rir_sum, i_over_rir_values, phase_idx>>
    /\ UNCHANGED <<smVars, erVars, polyVars, ldVars, pfVars, fitVars, whVars, xdVars, prVars, dbVars, brVars>>
    /\ heap' = Returning(heap, {New("list:26")})

RIR_Next ==
    \/ RIR_ReturnEmptyInput
    \/ RIR_EnterLoop
    \/ RIR_RaiseNonPositiveRir
    \/ RIR_Accumulate
    \/ RIR_ReturnZeros
    \/ RIR_Return

\* =========================================================================
\* XRDData (oneXRD/core/xrd_data.py)
\* =========================================================================

None == [set |-> FALSE, value |-> <<>>]

Some(v) == [set |-> TRUE, value |-> v]

XrdValues == {1, 2}

\* The arrays a caller may hold: a series, a background curve.
XrdArrays == SeqsUpTo(XrdValues, MaxXrd)

\* The tables set_peaks may be given.
XrdPeakTables == SeqsUpTo([angle : {1}, intensity : XrdValues], 1)

\* a - b of numpy: element by element, an array of one element stretched
\* over the other (broadcasting).
Broadcasts(a, b) == Len(a) = Len(b) \/ Len(a) = 1 \/ Len(b) = 1

Minus(a, b) ==
    [i \in 1..(IF Len(a) = 1 THEN Len(b) ELSE Len(a)) |->
        (IF Len(a) = 1 THEN a[1] ELSE a[i]) - (IF Len(b) = 1 THEN b[1] ELSE b[i])]

MinuendProcessed(raw, processed) == processed

\* Line 56: what the background is subtracted from.
Minuend(raw, processed) == raw

XD_Idle ==
    /\ raw_angles = <<>>
    /\ raw_intensities = <<>>
    /\ processed_angles = <<>>
    /\ processed_intensities = <<>>
    /\ background_curve = None
    /\ xrd_peaks_df = <<>>
    /\ caller_intensities = <<>>
    /\ constructed = <<>>
    /\ xd_last = [call |-> "none"]

\* Lines 14-38: the object after XRDData(raw_angles, raw_intensities).
XD_Init ==
    /\ caller_intensities \in XrdArrays
    /\ raw_angles = [i \in Indices(caller_intensities) |-> i]
    /\ raw_intensities = caller_intensities
    /\ processed_angles = raw_angles
    /\ processed_intensities = caller_intensities
    /\ background_curve = None
    /\ xrd_peaks_df = <<>>
    /\ constructed = <<raw_angles, raw_intensities>>
    /\ xd_last = [call |-> "__init__"]
    /\ heap = Bind(Args({"raw_angles", "raw_intensities"}),
                   {<<"self.raw_angles", NpCopy(Arg("raw_angles"), "np.copy:29")>>,
                    <<"self.raw_intensities", NpCopy(Arg("raw_intensities"), "np.copy:30")>>,
                    <<"self.processed_angles", NpCopy(Arg("raw_angles"), "np.copy:33")>>,
                    <<"self.processed_intensities",
                      NpCopy(Arg("raw_intensities"), "np.copy:34")>>})

\* Lines 55-57.
XD_SetBackground ==
    /\ xd_last.call # "none"
    /\ \E bg \in XrdArrays :
         /\ Broadcasts(raw_intensities, bg)
         /\ background_curve' = Some(bg)
         /\ processed_intensities' =
                Minus(Minuend(raw_intensities, processed_intensities), bg)
         /\ xd_last' = [call |-> "set_background", arg |-> bg, raised |-> FALSE]
    /\ heap' = Bind(heap, {<<"self.background_curve", Arg("background_curve")>>,
                           <<"self.processed_intensities", New("subtract:56")>>})
    /\ UNCHANGED <<raw_angles, raw_intensities, processed_angles, xrd_peaks_df,
                   caller_intensities, constructed>>
    /\ UNCHANGED <<smVars, erVars, polyVars, ldVars, pfVars, fitVars, whVars, rirVars, prVars, dbVars, brVars>>

\* Lines 55-56 with a curve whose shape does not fit the series: line 55 has
\* stored it when the subtraction of line 56 raises ValueError.
XD_SetBackgroundRaises ==
    /\ xd_last.call # "none"
    /\ \E bg \in XrdArrays :
         /\ ~Broadcasts(raw_intensities, bg)
         /\ background_curve' = Some(bg)
         /\ xd_last' = [call |-> "set_background", arg |-> bg, raised |-> TRUE]
    /\ heap' = Bind(heap, {<<"self.background_curve", Arg("background_curve")>>})
    /\ UNCHANGED <<raw_angles, raw_intensities, processed_angles,
                   processed_intensities, xrd_peaks_df, caller_intensities, constructed>>
    /\ UNCHANGED <<smVars, erVars, polyVars, ldVars, pfVars, fitVars, whVars, rirVars, prVars, dbVars, brVars>>

\* Lines 66-67.
XD_SetPeaks ==
    /\ xd_last.call # "none"
    /\ \E peaks_dataframe \in XrdPeakTables :
         /\ xrd_peaks_df' = peaks_dataframe
         /\ xd_last' = [call |-> "set_peaks", arg |-> peaks_dataframe, raised |-> FALSE]
    /\ heap' = Bind(heap, {<<"self.peaks_df", Arg("peaks_dataframe")>>})
    /\ UNCHANGED <<raw_angles, raw_intensities, processed_angles,
                   processed_intensities, background_curve, caller_intensities,
                   constructed>>
    /\ UNCHANGED <<smVars, erVars, polyVars, ldVars, pfVars, fitVars, whVars, rirVars, prVars, dbVars, brVars>>

\* Lines 71-74.
XD_ResetProcessing ==
    /\ xd_last.call # "none"
    /\ processed_intensities' = raw_intensities
    /\ background_curve' = None
    /\ xrd_peaks_df' = <<>>
    /\ xd_last' = [call |-> "reset_processing", arg |-> <<>>, raised |-> FALSE]
    /\ heap' = Bind(heap, {<<"self.processed_intensities",
                             NpCopy(ObjOf(heap, "self.raw_intensities"), "np.copy:71")>>,
                           <<"self.peaks_df", New("pd.DataFrame:73")>>})
    /\ UNCHANGED <<raw_angles, raw_intensities, processed_angles, caller_intensities,
                   constructed>>
    /\ UNCHANGED <<smVars, erVars, polyVars, ldVars, pfVars, fitVars, whVars, rirVars, prVars, dbVars, brVars>>

\* Between two calls the caller writes into the array it built the object
\* from; the object's arrays follow only where they are that same array.
XD_CallerWrites ==
    /\ xd_last.call # "none"
    /\ \E a \in XrdArrays :
         /\ Len(a) = Len(caller_intensities)
         /\ a # caller_intensities
         /\ caller_intensities' = a
    /\ raw_intensities' =
           IF ObjOf(heap, "self.raw_intensities") = Arg("raw_intensities")
           THEN caller_intensities' ELSE raw_intensities
    /\ processed_intensities' =
           IF ObjOf(heap, "self.processed_intensities") = Arg("raw_intensities")
           THEN caller_intensities' ELSE processed_intensities
    /\ UNCHANGED <<raw_angles, processed_angles, background_curve, xrd_peaks_df,
                   constructed, xd_last>>
    /\ UNCHANGED <<smVars, erVars, polyVars, ldVars, pfVars, fitVars, whVars, rirVars, prVars, dbVars, brVars, heapVars>>

XD_Next ==
    \/ XD_SetBackground
    \/ XD_SetBackgroundRaises
    \/ XD_SetPeaks
    \/ XD_ResetProcessing
    \/ XD_CallerWrites

\* =========================================================================
\* Project (oneXRD/core/project.py)
\* =========================================================================

\* XRDData objects as far as the project reads them: filename ("" is None)
\* and is_reference.
Filenames == {"", "NaCl.cif", "data/NaCl.cif", "exp1.xy"}

XrdObjects == [filename : Filenames, is_reference : BOOLEAN]

\* os.path.basename of the file names above.
PathBasename(filename) == IF filename = "data/NaCl.cif" THEN "NaCl.cif" ELSE filename

\* xrd_data.py lines 41-46: the display_name property.
DisplayName(obj) ==
    IF obj.is_reference
    THEN [base |-> IF obj.filename # "" THEN PathBasename(obj.filename) ELSE "Reference",
          suffix |-> " (Ref)"]
    ELSE [base |-> IF obj.filename # "" THEN PathBasename(obj.filename) ELSE "Untitled",
          suffix |-> ""]

\* The names remove_reference may be given.
ReferenceNames == {DisplayName(o) : o \in XrdObjects} \cup {[base |-> "Quartz.cif", suffix |-> " (Ref)"]}

DbIds == {Unset} \cup {[set |-> TRUE, value |-> v] : v \in 1..MaxDbId}

NoData == [set |-> FALSE, obj |-> [filename |-> "", is_reference |-> FALSE]]

NoCall == [call |-> "none", raised |-> FALSE, returned |-> "None",
           obj |-> NoData.obj, name |-> DisplayName(NoData.obj),
           before |-> <<Unset, NoData, {}>>]

\* Line 31.
RefusedAsExperiment(obj) == obj.is_reference

RefusedAsReferenceNever(obj) == FALSE

\* Line 44.
RefusedAsReference(obj) == ~obj.is_reference

\* Line 56: name in self.reference_data.
HasKey(dict, name) == \E e \in dict : e[1] = name

\* Line 47: self.reference_data[name] = xrd_data_obj.
SetItem(dict, name, obj) == {e \in dict : e[1] # name} \cup {<<name, obj>>}

\* Line 57: del self.reference_data[name].
DelItem(dict, name) == {e \in dict : e[1] # name}

PR_Idle ==
    /\ db_id = Unset
    /\ experimental_data = NoData
    /\ reference_data = {}
    /\ pr_last = NoCall

\* Lines 11-15: Project().
PR_Init ==
    /\ db_id = Unset
    /\ experimental_data = NoData
    /\ reference_data = {}
    /\ pr_last = [NoCall EXCEPT !.call = "__init__"]
    /\ heap = NoObjects

\* Lines 31-32.
PR_LoadExperimentalDataRaises ==
    /\ pr_last.call # "none"
    /\ \E xrd_data_obj \in XrdObjects :
         /\ RefusedAsExperiment(xrd_data_obj)
         /\ pr_last' = [call |-> "load_experimental_data", raised |-> TRUE,
                        returned |-> "None", obj |-> xrd_data_obj,
                        name |-> DisplayName(xrd_data_obj),
                        before |-> <<db_id, experimental_data, reference_data>>]
    /\ UNCHANGED <<db_id, experimental_data, reference_data>>
    /\ UNCHANGED <<smVars, erVars, polyVars, ldVars, pfVars, fitVars, whVars, rirVars, xdVars, dbVars, brVars, heapVars>>

\* Lines 31-35.
PR_LoadExperimentalData ==
    /\ pr_last.call # "none"
    /\ \E xrd_data_obj \in XrdObjects, id \in DbIds :
         /\ ~RefusedAsExperiment(xrd_data_obj)
         /\ experimental_data' = [set |-> TRUE, obj |-> xrd_data_obj]
         /\ db_id' = id
         /\ pr_last' = [call |-> "load_experimental_data", raised |-> FALSE,
                        returned |-> "None", obj |-> xrd_data_obj,
                        name |-> DisplayName(xrd_data_obj),
                        before |-> <<db_id, experimental_data, reference_data>>]
    /\ UNCHANGED reference_data
    /\ UNCHANGED <<smVars, erVars, polyVars, ldVars, pfVars, fitVars, whVars, rirVars, xdVars, dbVars, brVars, heapVars>>

\* Lines 44-45.
PR_AddReferenceRaises ==
    /\ pr_last.call # "none"
    /\ \E xrd_data_obj \in XrdObjects :
         /\ RefusedAsReference(xrd_data_obj)
         /\ pr_last' = [call |-> "add_reference", raised |-> TRUE,
                        returned |-> "None", obj |-> xrd_data_obj,
                        name |-> DisplayName(xrd_data_obj),
                        before |-> <<db_id, experimental_data, reference_data>>]
    /\ UNCHANGED <<db_id, experimental_data, reference_data>>
    /\ UNCHANGED <<smVars, erVars, polyVars, ldVars, pfVars, fitVars, whVars, rirVars, xdVars, dbVars, brVars, heapVars>>

\* Lines 44-48.
PR_AddReference ==
    /\ pr_last.call # "none"
    /\ \E xrd_data_obj \in XrdObjects :
         /\ ~RefusedAsReference(xrd_data_obj)
         /\ LET name == DisplayName(xrd_data_obj)
            IN  /\ reference_data' = SetItem(reference_data, name, xrd_data_obj)
                /\ pr_last' = [call |-> "add_reference", raised |-> FALSE,
                               returned |-> "None", obj |-> xrd_data_obj, name |-> name,
                               before |-> <<db_id, experimental_data, reference_data>>]
    /\ UNCHANGED <<db_id, experimental_data>>
    /\ UNCHANGED <<smVars, erVars, polyVars, ldVars, pfVars, fitVars, whVars, rirVars, xdVars, dbVars, brVars, heapVars>>

\* Lines 56-60.
PR_RemoveReference ==
    /\ pr_last.call # "none"
    /\ \E name \in ReferenceNames :
         /\ reference_data' =
                IF HasKey(reference_data, name) THEN DelItem(reference_data, name)
                ELSE reference_data
         /\ pr_last' = [call |-> "remove_reference", raised |-> FALSE,
                        returned |-> IF HasKey(reference_data, name) THEN "True" ELSE "False",
                        obj |-> NoData.obj, name |-> name,
                        before |-> <<db_id, experimental_data, reference_data>>]
    /\ UNCHANGED <<db_id, experimental_data>>
    /\ UNCHANGED <<smVars, erVars, polyVars, ldVars, pfVars, fitVars, whVars, rirVars, xdVars, dbVars, brVars, heapVars>>

\* Lines 64-65: self.__init__().
PR_ClearProject ==
    /\ pr_last.call # "none"
    /\ db_id' = Unset
    /\ experimental_data' = NoData
    /\ reference_data' = {}
    /\ pr_last' = [NoCall EXCEPT !.call = "clear_project",
                                 !.before = <<db_id, experimental_data, reference_data>>]
    /\ UNCHANGED <<smVars, erVars, polyVars, ldVars, pfVars, fitVars, whVars, rirVars, xdVars, dbVars, brVars, heapVars>>

PR_Next ==
    \/ PR_LoadExperimentalDataRaises
    \/ PR_LoadExperimentalData
    \/ PR_AddReferenceRaises
    \/ PR_AddReference
    \/ PR_RemoveReference
    \/ PR_ClearProject

\* =========================================================================
\* DatabaseManager (oneXRD/core/database.py)
\* =========================================================================

\* The numbers of the arrays: (1 + m/8) * 2^e, as <<e, m>>; here 1.0 and 10.0.
ArrayNumbers == {<<0, 0>>, <<3, 2>>}

\* IEEE 754 single precision: the 32-bit word of a number.
Float32Word(x) == (x[1] + 127) * 2 ^ 23 + x[2] * 2 ^ 20

\* IEEE 754 double precision, little endian: the low word, then the high word.
Float64Words(x) == <<0, (x[1] + 1023) * 2 ^ 20 + x[2] * 2 ^ 17>>

\* A numpy array: its dtype and its elements, each element as its words.
Float64Array(xs) == [dtype |-> "float64", items |-> [i \in Indices(xs) |-> Float64Words(xs[i])]]

Float32Array(xs) == [dtype |-> "float32", items |-> [i \in Indices(xs) |-> <<Float32Word(xs[i])>>]]

\* What the readers hand over: two arrays of one length and one dtype,
\* float64 (generic, XRDML, CIF) or float32 (Bruker, bruker_reader.py 62, 69).
SeriesOfLen(n) ==
    {[angles |-> Float64Array(a), intensities |-> Float64Array(b)] :
        a \in [1..n -> ArrayNumbers], b \in [1..n -> ArrayNumbers]}
    \cup {[angles |-> Float32Array(a), intensities |-> Float32Array(b)] :
        a \in [1..n -> ArrayNumbers], b \in [1..n -> ArrayNumbers]}

StorableSeries == UNION {SeriesOfLen(n) : n \in 0..MaxArr}

\* arr.tobytes(): the elements' words one after the other.
RECURSIVE ToBytes(_)
ToBytes(items) == IF items = <<>> THEN <<>> ELSE Head(items) \o ToBytes(Tail(items))

\* zlib.compress / zlib.decompress: lossless.
Compress(bytes) == [zlib |-> bytes]

Decompress(blob) == blob.zlib

\* Line 24.
SerializeArray(arr) == Compress(ToBytes(arr.items))

\* np.frombuffer(buffer, dtype): the buffer cut into elements of the dtype's
\* size; ValueError when its size is not a multiple of it.
WordsOf(dtype) == IF dtype = "float64" THEN 2 ELSE 1

FromBuffer(bytes, dtype) ==
    LET w == WordsOf(dtype)
    IN  IF Len(bytes) % w # 0
        THEN [raises |-> TRUE, array |-> [dtype |-> dtype, items |-> <<>>]]
        ELSE [raises |-> FALSE,
              array |-> [dtype |-> dtype,
                         items |-> [i \in 1..(Len(bytes) \div w) |->
                                       SubSeq(bytes, (i - 1) * w + 1, i * w)]]]

\* Lines 27-29, with the default dtype of line 27 (no caller passes another).
DeserializeArray(blob) == FromBuffer(Decompress(blob), "float64")

DatabaseError(text, id) == [kind |-> "raise", error |-> "DatabaseError", msg |-> text, id |-> id]

NoDbCall == [call |-> "none"]

DB_Idle ==
    /\ experiments = {}
    /\ raw_data = {}
    /\ sqlite_sequence = 0
    /\ originals = {}
    /\ db_last = NoDbCall

\* Lines 37-119: DatabaseManager(db_path) on a new database file.
DB_Init ==
    /\ experiments = {}
    /\ raw_data = {}
    /\ sqlite_sequence = 0
    /\ originals = {}
    /\ db_last = [call |-> "__init__"]
    /\ heap = NoObjects

SampleNames == {"NaCl_Sample_1"}

\* Lines 121-136.
DB_AddExperiment ==
    /\ db_last.call # "none"
    /\ sqlite_sequence < MaxExperiments
    /\ \E sample_name \in SampleNames, series \in StorableSeries :
         LET experiment_id == sqlite_sequence + 1
             s_angles == SerializeArray(series.angles)
             s_intensities == SerializeArray(series.intensities)
         IN  /\ experiments' = experiments \cup
                    {[id |-> experiment_id, sample_name |-> sample_name]}
             /\ raw_data' = raw_data \cup
                    {[experiment_id |-> experiment_id, angles |-> s_angles,
                      intensities |-> s_intensities]}
             /\ sqlite_sequence' = experiment_id
             /\ originals' = originals \cup {<<experiment_id, series>>}
             /\ db_last' = [call |-> "add_experiment", id |-> experiment_id,
                            result |-> [kind |-> "return", value |-> experiment_id]]
    /\ UNCHANGED <<smVars, erVars, polyVars, ldVars, pfVars, fitVars, whVars, rirVars, xdVars, prVars, brVars, heapVars>>

\* The ids a caller may ask for.
ExperimentIds == 1..MaxExperiments

\* Lines 166-169.
DB_GetExperimentDataRaises ==
    /\ db_last.call # "none"
    /\ \E experiment_id \in ExperimentIds :
         /\ ~\E row \in experiments : row.id = experiment_id
         /\ db_last' = [call |-> "get_experiment_data", id |-> experiment_id,
                        result |-> DatabaseError("No experiment found with ID: {experiment_id}",
                                                 experiment_id)]
    /\ UNCHANGED <<experiments, raw_data, sqlite_sequence, originals>>
    /\ UNCHANGED <<smVars, erVars, polyVars, ldVars, pfVars, fitVars, whVars, rirVars, xdVars, prVars, brVars, heapVars>>

\* Lines 166-177 when np.frombuffer refuses a blob: the ValueError leaves
\* get_experiment_data as it is.
DB_GetExperimentDataBufferError ==
    /\ db_last.call # "none"
    /\ \E exp_res \in experiments :
         \E raw_res \in {r \in raw_data : r.experiment_id = exp_res.id} :
             /\ \/ DeserializeArray(raw_res.angles).raises
                \/ DeserializeArray(raw_res.intensities).raises
             /\ db_last' = [call |-> "get_experiment_data", id |-> exp_res.id,
                            result |-> [kind |-> "raise", error |-> "ValueError",
                                        msg |-> "buffer size must be a multiple of element size",
                                        id |-> exp_res.id]]
    /\ UNCHANGED <<experiments, raw_data, sqlite_sequence, originals>>
    /\ UNCHANGED <<smVars, erVars, polyVars, ldVars, pfVars, fitVars, whVars, rirVars, xdVars, prVars, brVars, heapVars>>

\* Lines 166-188 (no analysis results are stored in this model).
DB_GetExperimentData ==
    /\ db_last.call # "none"
    /\ \E exp_res \in experiments :
         \E raw_res \in {r \in raw_data : r.experiment_id = exp_res.id} :
             /\ ~DeserializeArray(raw_res.angles).raises
             /\ ~DeserializeArray(raw_res.intensities).raises
             /\ db_last' = [call |-> "get_experiment_data", id |-> exp_res.id,
                            result |-> [kind |-> "return", id |-> exp_res.id,
                                        sample_name |-> exp_res.sample_name,
                                        angles |-> DeserializeArray(raw_res.angles).array,
                                        intensities |->
                                            DeserializeArray(raw_res.intensities).array]]
    /\ UNCHANGED <<experiments, raw_data, sqlite_sequence, originals>>
    /\ UNCHANGED <<smVars, erVars, polyVars, ldVars, pfVars, fitVars, whVars, rirVars, xdVars, prVars, brVars, heapVars>>

\* Lines 190-195 (the rows as a set: their order is not modelled).
DB_GetAllExperimentsSummary ==
    /\ db_last.call # "none"
    /\ db_last' = [call |-> "get_all_experiments_summary", id |-> 0,
                   result |-> [kind |-> "return",
                               value |-> {<<row.id, row.sample_name>> : row \in experiments}]]
    /\ UNCHANGED <<experiments, raw_data, sqlite_sequence, originals>>
    /\ UNCHANGED <<smVars, erVars, polyVars, ldVars, pfVars, fitVars, whVars, rirVars, xdVars, prVars, brVars, heapVars>>

\* Lines 197-207.
DB_DeleteExperiment ==
    /\ db_last.call # "none"
    /\ \E experiment_id \in ExperimentIds :
         /\ raw_data' = {r \in raw_data : r.experiment_id # experiment_id}
         /\ experiments' = {row \in experiments : row.id # experiment_id}
         /\ originals' = {o \in originals : o[1] # experiment_id}
         /\ db_last' = [call |-> "delete_experiment", id |-> experiment_id,
                        result |-> [kind |-> "return",
                                    value |-> \E row \in experiments : row.id = experiment_id]]
    /\ UNCHANGED sqlite_sequence
    /\ UNCHANGED <<smVars, erVars, polyVars, ldVars, pfVars, fitVars, whVars, rirVars, xdVars, prVars, brVars, heapVars>>

DB_Next ==
    \/ DB_AddExperiment
    \/ DB_GetExperimentDataRaises
    \/ DB_GetExperimentDataBufferError
    \/ DB_GetExperimentData
    \/ DB_GetAllExperimentsSummary
    \/ DB_DeleteExperiment

\* =========================================================================
\* BatchRunner.run_batch and BatchWindow (plugins/batch_processing)
\* =========================================================================

\* What processing one file of the folder does: load_data raises, an analysis
\* step raises, find_all_peaks finds peaks, or finds none.
FileKinds == {"import_error", "analysis_error", "peaks", "no_peaks"}

\* ui.py lines 124-130: a line appended to the log box.
LogMessage(u, message, level) ==
    [u EXCEPT !.log_textbox = Append(@, [level |-> level, message |-> message])]

\* ui.py lines 136-139; notified counts the calls.
OnBatchComplete(u) ==
    LogMessage([u EXCEPT !.run_button = "normal", !.notified = @ + 1],
               "Batch process complete!", "success")

\* Lines 82-83: the handler of the outer try.
CriticalError(u) == LogMessage(u, "A critical error occurred", "error")

\* Lines 47-70: whether the body of the inner try raises for a file.
FileRaises(kind, p) ==
    \/ kind = "import_error"
    \/ kind = "analysis_error" /\ (p.do_background \/ p.do_peaks)

\* Lines 56-70: the row recorded for a file whose processing did not raise.
ResultRows(filename, kind, p) ==
    IF ~p.do_peaks THEN <<>>
    ELSE IF kind = "peaks"
         THEN <<[filename |-> filename, strongest_peak_angle |-> "angle"]>>
         ELSE <<[filename |-> filename, strongest_peak_angle |-> "N/A"]>>

NewWindow == [run_button |-> "normal", log_textbox |-> <<>>, progress |-> <<0, 1>>, notified |-> 0]

BR_Idle ==
    /\ entries = [input_folder |-> "", numeric |-> TRUE, do_background |-> FALSE, do_peaks |-> FALSE]
    /\ folder = [listable |-> FALSE, writable |-> FALSE, files |-> <<>>]
    /\ all_files = <<>>
    /\ all_results = <<>>
    /\ file_idx = 0
    /\ ui = NewWindow
    /\ br_pc = "idle"

\* The window as launch_batch_processor opens it, the entries filled in.
BR_Init ==
    /\ entries \in [input_folder : {"", "dir"}, numeric : BOOLEAN,
                    do_background : BOOLEAN, do_peaks : BOOLEAN]
    /\ folder \in [listable : BOOLEAN, writable : BOOLEAN, files : SeqsUpTo(FileKinds, MaxFiles)]
    /\ all_files = <<>>
    /\ all_results = <<>>
    /\ file_idx = 0
    /\ ui = NewWindow
    /\ br_pc = "window"
    /\ heap = NoObjects

\* ui.py lines 112, 121-122: int() or float() of an entry raises ValueError.
BR_RunClickedInvalidParameter ==
    /\ br_pc = "window"
    /\ ~entries.numeric
    /\ ui' = LogMessage(ui, "ERROR: Invalid parameter.", "error")
    /\ br_pc' = "returned"
    /\ UNCHANGED <<entries, folder, all_files, all_results, file_idx>>
    /\ UNCHANGED <<smVars, erVars, polyVars, ldVars, pfVars, fitVars, whVars, rirVars, xdVars, prVars, dbVars, heapVars>>

\* ui.py lines 113-115.
BR_RunClickedNoFolder ==
    /\ br_pc = "window"
    /\ entries.numeric
    /\ entries.input_folder = ""
    /\ ui' = LogMessage(ui, "ERROR: Please select an input folder.", "error")
    /\ br_pc' = "returned"
    /\ UNCHANGED <<entries, folder, all_files, all_results, file_idx>>
    /\ UNCHANGED <<smVars, erVars, polyVars, ldVars, pfVars, fitVars, whVars, rirVars, xdVars, prVars, dbVars, heapVars>>

\* ui.py lines 116-120: the button is disabled, the log cleared, run_batch called.
BR_RunClicked ==
    /\ br_pc = "window"
    /\ entries.numeric
    /\ entries.input_folder # ""
    /\ ui' = [ui EXCEPT !.run_button = "disabled", !.log_textbox = <<>>]
    /\ br_pc' = "listing"
    /\ UNCHANGED <<entries, folder, all_files, all_results, file_idx>>
    /\ UNCHANGED <<smVars, erVars, polyVars, ldVars, pfVars, fitVars, whVars, rirVars, xdVars, prVars, dbVars, heapVars>>

\* Line 31: os.listdir raises (the folder is gone or unreadable); lines 82-83.
BR_ListFilesRaises ==
    /\ br_pc = "listing"
    /\ ~folder.listable
    /\ ui' = CriticalError(ui)
    /\ br_pc' = "finally"
    /\ UNCHANGED <<entries, folder, all_files, all_results, file_idx>>
    /\ UNCHANGED <<smVars, erVars, polyVars, ldVars, pfVars, fitVars, whVars, rirVars, xdVars, prVars, dbVars, heapVars>>

\* Lines 31-36: no file in the folder: a warning, on_batch_complete, return.
\* The return leaves the try statement through its finally clause.
BR_NoFiles ==
    /\ br_pc = "listing"
    /\ folder.listable
    /\ folder.files = <<>>
    /\ all_files' = folder.files
    /\ ui' = OnBatchComplete(LogMessage(ui, "No files found in the selected folder.", "warning"))
    /\ br_pc' = "finally"
    /\ UNCHANGED <<entries, folder, all_results, file_idx>>
    /\ UNCHANGED <<smVars, erVars, polyVars, ldVars, pfVars, fitVars, whVars, rirVars, xdVars, prVars, dbVars, heapVars>>

\* Lines 31-38.
BR_EnterLoop ==
    /\ br_pc = "listing"
    /\ folder.listable
    /\ folder.files # <<>>
    /\ all_files' = folder.files
    /\ all_results' = <<>>
    /\ br_pc' = "loop"
    /\ UNCHANGED <<entries, folder, file_idx, ui>>
    /\ UNCHANGED <<smVars, erVars, polyVars, ldVars, pfVars, fitVars, whVars, rirVars, xdVars, prVars, dbVars, heapVars>>

\* Lines 40-70: one file whose processing does not raise.
BR_ProcessFile ==
    /\ br_pc = "loop"
    /\ file_idx < Len(all_files)
    /\ ~FileRaises(all_files[file_idx + 1], entries)
    /\ ui' = [LogMessage(ui, "Processing", "info")
                 EXCEPT !.progress = <<file_idx + 1, Len(all_files)>>]
    /\ all_results' = all_results \o ResultRows(file_idx + 1, all_files[file_idx + 1], entries)
    /\ file_idx' = file_idx + 1
    /\ UNCHANGED <<entries, folder, all_files, br_pc>>
    /\ UNCHANGED <<smVars, erVars, polyVars, ldVars, pfVars, fitVars, whVars, rirVars, xdVars, prVars, dbVars, heapVars>>

\* Lines 40-47, 72-74: one file whose processing raises; the loop goes on.
BR_FileFails ==
    /\ br_pc = "loop"
    /\ file_idx < Len(all_files)
    /\ FileRaises(all_files[file_idx + 1], entries)
    /\ ui' = LogMessage([LogMessage(ui, "Processing", "info")
                            EXCEPT !.progress = <<file_idx + 1, Len(all_files)>>],
                        "Could not process", "error")
    /\ all_results' = Append(all_results,
                             [filename |-> file_idx + 1, strongest_peak_angle |-> "ERROR"])
    /\ file_idx' = file_idx + 1
    /\ UNCHANGED <<entries, folder, all_files, br_pc>>
    /\ UNCHANGED <<smVars, erVars, polyVars, ldVars, pfVars, fitVars, whVars, rirVars, xdVars, prVars, dbVars, heapVars>>

\* Lines 77-80.
BR_SaveResults ==
    /\ br_pc = "loop"
    /\ file_idx >= Len(all_files)
    /\ folder.writable
    /\ ui' = LogMessage(ui, "Results saved", "success")
    /\ br_pc' = "finally"
    /\ UNCHANGED <<entries, folder, all_files, all_results, file_idx>>
    /\ UNCHANGED <<smVars, erVars, polyVars, ldVars, pfVars, fitVars, whVars, rirVars, xdVars, prVars, dbVars, heapVars>>

\* Line 79: to_csv raises (the folder cannot be written); lines 82-83.
BR_SaveRaises ==
    /\ br_pc = "loop"
    /\ file_idx >= Len(all_files)
    /\ ~folder.writable
    /\ ui' = CriticalError(ui)
    /\ br_pc' = "finally"
    /\ UNCHANGED <<entries, folder, all_files, all_results, file_idx>>
    /\ UNCHANGED <<smVars, erVars, polyVars, ldVars, pfVars, fitVars, whVars, rirVars, xdVars, prVars, dbVars, heapVars>>

\* Lines 84-85: the finally clause, on every way out of the try statement.
BR_Finally ==
    /\ br_pc = "finally"
    /\ ui' = OnBatchComplete(ui)
    /\ br_pc' = "returned"
    /\ UNCHANGED <<entries, folder, all_files, all_results, file_idx>>
    /\ UNCHANGED <<smVars, erVars, polyVars, ldVars, pfVars, fitVars, whVars, rirVars, xdVars, prVars, dbVars, heapVars>>

BR_Next ==
    \/ BR_RunClickedInvalidParameter
    \/ BR_RunClickedNoFolder
    \/ BR_RunClicked
    \/ BR_ListFilesRaises
    \/ BR_NoFiles
    \/ BR_EnterLoop
    \/ BR_ProcessFile
    \/ BR_FileFails
    \/ BR_SaveResults
    \/ BR_SaveRaises
    \/ BR_Finally

\* =========================================================================
\* Specifications: one per function, and their union
\* =========================================================================
SM_Spec_Init == SM_Init /\ ER_Idle /\ POLY_Idle /\ LD_Idle /\ PF_Idle /\ FIT_Idle /\ WH_Idle /\ RIR_Idle /\ XD_Idle /\ PR_Idle /\ DB_Idle /\ BR_Idle

SpecMatch == SM_Spec_Init /\ [][SM_Next]_vars

ER_Spec_Init == ER_Init /\ SM_Idle /\ POLY_Idle /\ LD_Idle /\ PF_Idle /\ FIT_Idle /\ WH_Idle /\ RIR_Idle /\ XD_Idle /\ PR_Idle /\ DB_Idle /\ BR_Idle

SpecErosion == ER_Spec_Init /\ [][ER_Next]_vars

POLY_Spec_Init == POLY_Init /\ SM_Idle /\ ER_Idle /\ LD_Idle /\ PF_Idle /\ FIT_Idle /\ WH_Idle /\ RIR_Idle /\ XD_Idle /\ PR_Idle /\ DB_Idle /\ BR_Idle

SpecPoly == POLY_Spec_Init /\ [][POLY_Next]_vars

LD_Spec_Init == LD_Init /\ SM_Idle /\ ER_Idle /\ POLY_Idle /\ PF_Idle /\ FIT_Idle /\ WH_Idle /\ RIR_Idle /\ XD_Idle /\ PR_Idle /\ DB_Idle /\ BR_Idle

SpecImport == LD_Spec_Init /\ [][LD_Next]_vars

PF_Spec_Init == PF_Init /\ SM_Idle /\ ER_Idle /\ POLY_Idle /\ LD_Idle /\ FIT_Idle /\ WH_Idle /\ RIR_Idle /\ XD_Idle /\ PR_Idle /\ DB_Idle /\ BR_Idle

SpecPeaks == PF_Spec_Init /\ [][PF_Next]_vars

FIT_Spec_Init ==
    FIT_Init /\ SM_Idle /\ ER_Idle /\ POLY_Idle /\ LD_Idle /\ PF_Idle /\ WH_Idle /\ RIR_Idle /\ XD_Idle /\ PR_Idle /\ DB_Idle /\ BR_Idle

SpecFit == FIT_Spec_Init /\ [][FIT_Next]_vars

WH_Spec_Init ==
    WH_Init /\ SM_Idle /\ ER_Idle /\ POLY_Idle /\ LD_Idle /\ PF_Idle /\ FIT_Idle /\ RIR_Idle /\ XD_Idle /\ PR_Idle /\ DB_Idle /\ BR_Idle

SpecWilliamsonHall == WH_Spec_Init /\ [][WH_Next]_vars

RIR_Spec_Init ==
    RIR_Init /\ SM_Idle /\ ER_Idle /\ POLY_Idle /\ LD_Idle /\ PF_Idle /\ FIT_Idle /\ WH_Idle /\ XD_Idle /\ PR_Idle /\ DB_Idle /\ BR_Idle

SpecRir == RIR_Spec_Init /\ [][RIR_Next]_vars

XD_Spec_Init ==
    XD_Init /\ SM_Idle /\ ER_Idle /\ POLY_Idle /\ LD_Idle /\ PF_Idle /\ FIT_Idle /\ WH_Idle /\ RIR_Idle /\ PR_Idle /\ DB_Idle /\ BR_Idle

SpecXrdData == XD_Spec_Init /\ [][XD_Next]_vars

PR_Spec_Init ==
    PR_Init /\ SM_Idle /\ ER_Idle /\ POLY_Idle /\ LD_Idle /\ PF_Idle /\ FIT_Idle /\ WH_Idle /\ RIR_Idle /\ XD_Idle /\ DB_Idle /\ BR_Idle

SpecProject == PR_Spec_Init /\ [][PR_Next]_vars

DB_Spec_Init ==
    DB_Init /\ SM_Idle /\ ER_Idle /\ POLY_Idle /\ LD_Idle /\ PF_Idle /\ FIT_Idle /\ WH_Idle /\ RIR_Idle /\ XD_Idle /\ PR_Idle /\ BR_Idle

SpecDatabase == DB_Spec_Init /\ [][DB_Next]_vars

BR_Spec_Init ==
    BR_Init /\ SM_Idle /\ ER_Idle /\ POLY_Idle /\ LD_Idle /\ PF_Idle /\ FIT_Idle /\ WH_Idle /\ RIR_Idle /\ XD_Idle /\ PR_Idle /\ DB_Idle

SpecBatch == BR_Spec_Init /\ [][BR_Next]_vars

\* run_batch runs to its end in the thread that called it: a step that can be
\* taken is taken.
SpecBatchFair == BR_Spec_Init /\ [][BR_Next]_vars /\ WF_vars(BR_Next)

\* The six functions of the analysis core.
CoreInit ==
    \/ SM_Spec_Init \/ ER_Spec_Init \/ POLY_Spec_Init \/ PF_Spec_Init \/ FIT_Spec_Init
    \/ RIR_Spec_Init

CoreNext == SM_Next \/ ER_Next \/ POLY_Next \/ PF_Next \/ FIT_Next \/ RIR_Next

SpecCore == CoreInit /\ [][CoreNext]_vars

Init ==
    \/ SM_Spec_Init \/ ER_Spec_Init \/ POLY_Spec_Init \/ LD_Spec_Init
    \/ PF_Spec_Init \/ FIT_Spec_Init \/ WH_Spec_Init \/ RIR_Spec_Init
    \/ XD_Spec_Init \/ PR_Spec_Init \/ DB_Spec_Init \/ BR_Spec_Init

Next ==
    \/ SM_Next \/ ER_Next \/ POLY_Next \/ LD_Next \/ PF_Next \/ FIT_Next \/ WH_Next
    \/ RIR_Next \/ XD_Next \/ PR_Next \/ DB_Next \/ BR_Next

Spec == Init /\ [][Next]_vars

\* =========================================================================
\* Properties
\* =========================================================================
Returned == sm_pc = "done" /\ sm_result.kind = "return"

RefTotal ==
    SumSeq([i \in Indices(reference_pattern.rows) |-> reference_pattern.rows[i].intensity])

MatchedTotal(m) == SumSeq([i \in Indices(m) |-> m[i].ref_intensity])

OneToOne(m) ==
    \A i, j \in Indices(m) :
        i # j => m[i].exp_row # m[j].exp_row /\ m[i].ref_row # m[j].ref_row

\* C1: the match table is a 1:1 assignment: no reference peak and no
\* experimental row appears in two match records, at any point of the loop
\* and in the table returned.
C1_OneToOneAssignment ==
    /\ OneToOne(matched_peaks_info)
    /\ Returned => OneToOne(sm_result.matches)

\* Two reference peaks were matched although one experimental row lay within
\* tolerance of both: the second had to take another row.
C1_Witness ==
    /\ Returned
    /\ \E i, j \in Indices(sm_result.matches) :
         /\ i < j
         /\ Abs(sm_result.matches[i].exp_angle - sm_result.matches[j].ref_angle)
                <= angle_tolerance
         /\ Abs(sm_result.matches[i].exp_angle - sm_result.matches[j].ref_angle)
                < Abs(sm_result.matches[j].delta_angle)

\* C2: the figure of merit is 100 x (reference intensity of the matched
\* peaks) / (total reference intensity), lies in [0, 100], and is 0.0 with an
\* empty table when no experimental peak is within tolerance of any
\* reference peak.
C2_FigureOfMerit ==
    Returned =>
        LET fom == sm_result.fom
            m == sm_result.matches
        IN  /\ fom.den > 0
            /\ fom.num * RefTotal = 100 * MatchedTotal(m) * fom.den
            /\ 0 <= fom.num /\ fom.num <= 100 * fom.den
            /\ (\A r \in Indices(reference_pattern.rows), e \in Indices(experimental_peaks.rows) :
                    Abs(experimental_peaks.rows[e].angle - reference_pattern.rows[r].angle)
                        > angle_tolerance)
               => fom = Zero /\ m = EmptyFrame

\* Every reference peak matched, so the score adds up two intensities.
C2_Witness ==
    /\ Returned
    /\ Len(sm_result.matches) = 2
    /\ sm_result.matches[1].ref_intensity # sm_result.matches[2].ref_intensity
    /\ sm_result.fom.num = 100 * sm_result.fom.den

\* C3 as stated: an empty reference pattern gives FOM 0.0 and an empty table
\* without an error, whatever the experimental table is.
C3_EmptyReferenceNeverRaises ==
    (sm_pc = "done" /\ reference_pattern.rows = <<>>)
        => sm_result = [kind |-> "return", fom |-> Zero, matches |-> EmptyFrame]

\* C3 amended: the column checks come first.  An empty reference pattern that
\* has the angle and intensity columns gives FOM 0.0 and an empty table
\* without an error for every experimental table that has the angle column;
\* with a required column missing the call raises SearchMatchError.
C3_EmptyReferenceAfterColumnChecks ==
    (sm_pc = "done" /\ reference_pattern.rows = <<>>) =>
        IF /\ "angle" \in experimental_peaks.columns
           /\ {"angle", "intensity"} \subseteq reference_pattern.columns
        THEN sm_result = [kind |-> "return", fom |-> Zero, matches |-> EmptyFrame]
        ELSE sm_result.kind = "raise" /\ sm_result.error = "SearchMatchError"

C3_Witness ==
    /\ sm_pc = "done"
    /\ reference_pattern.rows = <<>>
    /\ reference_pattern.columns = {"angle", "intensity"}
    /\ Len(experimental_peaks.rows) = MaxExp
    /\ "angle" \in experimental_peaks.columns
    /\ sm_result.kind = "return"

\* The windows [angle - tol, angle + tol] of the reference peaks are pairwise disjoint.
DisjointWindows ==
    \A i, j \in Indices(reference_pattern.rows) :
        i # j => Abs(reference_pattern.rows[i].angle - reference_pattern.rows[j].angle)
                     > 2 * angle_tolerance

\* Some experimental peak lies within tolerance of the angle.
Occupied(angle) ==
    \E e \in Indices(experimental_peaks.rows) :
        Abs(experimental_peaks.rows[e].angle - angle) <= angle_tolerance

\* C4: with pairwise disjoint windows a reference peak is matched iff its
\* window is occupied; the match count is the number of occupied windows and
\* the FOM their share of the reference intensity (100 when all are occupied).
C4_DisjointWindows ==
    (Returned /\ DisjointWindows) =>
        LET m == sm_result.matches
            occupied == {k \in Indices(sorted_reference) : Occupied(sorted_reference[k].angle)}
            share == SumSeq([k \in Indices(sorted_reference) |->
                               IF k \in occupied THEN sorted_reference[k].intensity ELSE 0])
        IN  /\ {m[i].ref_row : i \in Indices(m)} = occupied
            /\ Len(m) = Cardinality(occupied)
            /\ sm_result.fom.num * RefTotal = 100 * share * sm_result.fom.den
            /\ (occupied = Indices(sorted_reference) /\ occupied # {})
                   => sm_result.fom.num = 100 * sm_result.fom.den

\* The strongest peak's window is empty; the weaker peak's window holds two
\* peaks, the matched one at the very edge of the tolerance; one match.
C4_Witness ==
    /\ Returned
    /\ DisjointWindows
    /\ angle_tolerance > 0
    /\ Len(sorted_reference) = 2
    /\ sorted_reference[1].intensity > sorted_reference[2].intensity
    /\ ~Occupied(sorted_reference[1].angle)
    /\ Len(sm_result.matches) = 1
    /\ Abs(sm_result.matches[1].delta_angle) = angle_tolerance
    /\ Len(experimental_peaks.rows) = 2

\* C5: an iteration of the erosion never raises a point of the background,
\* so the background never exceeds the input intensity, for every iteration
\* count.
C5_ErosionMonotone ==
    /\ [][\A i \in DOMAIN background : background'[i] <= background[i]]_vars
    /\ [](er_pc \in {"loop", "done"} =>
            /\ Len(background) = Len(intensities)
            /\ \A i \in DOMAIN background : background[i] <= intensities[i])

\* Two iterations ran and lowered a point in each of them.
C5_Witness ==
    /\ er_pc = "done"
    /\ er_iter = 2
    /\ \E i \in DOMAIN background :
         /\ background[i] < Erode(intensities)[i]
         /\ Erode(intensities)[i] < intensities[i]

PolyRaised == poly_result.kind = "raise" /\ poly_result.error = "BackgroundError"

\* C6 as stated: order + 1 or fewer anchors raise BackgroundError.
C6_RaisesUpToOrderPlusOne ==
    (poly_pc = "done" /\ Len(selected_indices) <= poly_order + 1) => PolyRaised

\* C6 amended: the number of anchors must be strictly greater than order:
\* order or fewer anchors raise BackgroundError and return no background,
\* order + 1 anchors are enough and return one.
C6_RaisesUpToOrder ==
    poly_pc = "done" =>
        /\ Len(selected_indices) <= poly_order
               => PolyRaised /\ "shape" \notin DOMAIN poly_result
        /\ Len(selected_indices) = poly_order + 1
               => poly_result = [kind |-> "return", shape |-> poly_n]

C6_Witness ==
    /\ poly_pc = "done"
    /\ poly_order > 0
    /\ Len(selected_indices) = poly_order + 1
    /\ poly_result.kind = "return"

\* C7: BackgroundError is raised exactly when the number of anchors is at
\* most the order; order + 1 or more anchors never raise.
C7_RaisesIffAtMostOrder ==
    poly_pc = "done" =>
        /\ PolyRaised <=> Len(selected_indices) <= poly_order
        /\ Len(selected_indices) >= poly_order + 1 => poly_result.kind = "return"

C7_Witness ==
    /\ poly_pc = "done"
    /\ poly_order > 0
    /\ Len(selected_indices) = poly_order
    /\ PolyRaised

NonEmptySeries(r) == Len(r.angles) = Len(r.intensities) /\ Len(r.angles) > 0

\* C8: every successful return of a reader and of load_data is a pair of
\* equally long, non-empty arrays.
C8_SeriesNeverEmpty ==
    /\ reader_outcome.kind = "return" => NonEmptySeries(reader_outcome)
    /\ (ld_pc = "done" /\ ld_result.kind = "return") => NonEmptySeries(ld_result)

\* C9: a failure raised by the reader that load_data invoked leaves load_data
\* unchanged: the same error class and message.
C9_ReaderFailureUnchanged ==
    (ld_pc = "done" /\ reader_outcome.kind = "raise") => ld_result = reader_outcome

\* C10: for a path that does not exist no reader is selected or invoked, and
\* the error is the same 'File not found' DataImportError for every extension.
C10_NotFoundBeforeAnyReader ==
    ~file.exists =>
        /\ reader_log = <<>>
        /\ reader_func = NoReader
        /\ ld_pc \in {"start", "done"}
        /\ ld_pc = "done" =>
               ld_result = [kind |-> "raise", cls |-> "generic_reader.DataImportError",
                            msg |-> [text |-> "File not found: {filepath}",
                                     filepath |-> file.path]]

C10_Witness ==
    /\ ~file.exists
    /\ ld_pc = "done"
    /\ file.path.ext = ".raw"
    /\ ld_result.kind = "raise"

\* C11: load_data selects the reader by the lower-cased extension: .raw the
\* Bruker reader, .xrdml the XRDML reader, .cif the CIF reader, .xy/.csv/.txt
\* the generic text reader, in whatever case the extension is written; every
\* other extension, and none, is read by the generic text reader, not rejected.
C11_ReaderByLowerCasedExtension ==
    (file.exists /\ ld_pc = "done") =>
        LET ext == file.path.ext
            expected ==
                CASE ext \in {".raw", ".RAW"} -> "read_bruker_raw_v4"
                  [] ext \in {".xrdml", ".XRDML"} -> "read_panalytical_xrdml"
                  [] ext \in {".cif", ".Cif"} -> "read_cif_file"
                  [] OTHER -> "read_generic_text_file"
        IN  /\ reader_log = <<expected>>
            /\ ext \in {".xy", ".csv", ".txt", ".TXT", ".dat", ""}
                   => reader_log = <<"read_generic_text_file">>
            /\ ld_result.kind \in {"return", "raise"}

\* An upper-case extension reached the XRDML reader, which returned a series.
C11_Witness ==
    /\ ld_pc = "done"
    /\ file.path.ext = ".XRDML"
    /\ reader_log = <<"read_panalytical_xrdml">>
    /\ ld_result.kind = "return"

\* The Bruker reader was called on a file of its format.
BrukerCalled ==
    /\ ld_pc = "done"
    /\ reader_log = <<"read_bruker_raw_v4">>
    /\ file.content.kind = "bruker"

\* C12: when START=, STEPSIZE= or COUNT= is absent from the first 2048 bytes
\* read_bruker_raw_v4 fails with the import failure of a malformed file, and
\* returns no series.
C12_MissingFieldIsMalformed ==
    (/\ BrukerCalled
     /\ \/ ~file.content.START.present
        \/ ~file.content.STEPSIZE.present
        \/ ~file.content.COUNT.present)
    => /\ reader_outcome.kind = "raise"
       /\ reader_outcome.cls = "bruker_reader.DataImportError"
       /\ reader_outcome.msg.text =
              "File is not a valid Bruker RAW v4 file. Missing essential metadata in the header."
       /\ "angles" \notin DOMAIN reader_outcome
       /\ ld_result.kind = "raise"

\* Only STEPSIZE= is absent; the payload holds the COUNT floats.
C12_Witness ==
    /\ BrukerCalled
    /\ file.content.START.present /\ file.content.START.numeric
    /\ ~file.content.STEPSIZE.present
    /\ file.content.COUNT.present
    /\ file.content.COUNT.value = MaxCount
    /\ Len(file.content.payload) = MaxCount
    /\ reader_outcome.kind = "raise"

\* C13: with the three header fields present (and START, STEPSIZE decimal
\* numbers) the intensities are read from byte 2048 on: fewer than COUNT
\* floats is a size-mismatch failure; otherwise COUNT intensities equal to
\* the payload are returned with COUNT angles, angle[i] = START + i * STEPSIZE
\* for i in 0..COUNT-1.
C13_AnglesAreStartPlusSteps ==
    (/\ BrukerCalled
     /\ file.content.START.present /\ file.content.START.numeric
     /\ file.content.STEPSIZE.present /\ file.content.STEPSIZE.numeric
     /\ file.content.COUNT.present)
    => LET c == file.content
           count == c.COUNT.value
           out == reader_outcome
       IN  IF Len(c.payload) < count
           THEN /\ out.kind = "raise"
                /\ out.msg = [text |-> "Data corruption: Header specified {count} points, but only {len(intensities)} could be read.",
                              count |-> count, read |-> Len(c.payload)]
           ELSE /\ out.kind = "return"
                /\ out.intensities = SubSeq(c.payload, 1, count)
                /\ Len(out.angles) = count
                /\ \A i \in 1..count :
                      out.angles[i].m * Decimals
                          = (c.START.value + (i - 1) * c.STEPSIZE.value) * 2 ^ out.angles[i].e

\* The generic text reader was called on a text file.
GenericCalled ==
    /\ ld_pc = "done"
    /\ reader_log = <<"read_generic_text_file">>
    /\ file.content.kind = "text"

\* The leading run of lines that are blank or start with '#', '!', '/' or
\* whitespace.
RECURSIVE LeadingRun(_)
LeadingRun(lines) ==
    IF lines # <<>> /\ (Head(lines) = "blank" \/ FirstChar(Head(lines)) \in {"#", "!", "/", " "})
    THEN 1 + LeadingRun(Tail(lines))
    ELSE 0

\* C14: the header that read_generic_text_file skips is exactly the maximal
\* leading run of lines that are blank or start with '#', '!', '/' or
\* whitespace; the header count is the length of that run and parsing starts
\* at the line after it.
C14_HeaderIsLeadingRun ==
    GenericCalled => header_rows = LeadingRun(file.content.lines)

\* C15: the delimiters are tried in the order whitespace, comma, tab; the
\* columns of the first one that gives a 2-column numeric matrix with at
\* least one row are returned, a single data row included; the call fails
\* with an import failure when no delimiter does.
C15_FirstDelimiterThatParses ==
    GenericCalled =>
        LET parse(k) == LoadTxt(file.content.lines, header_rows, Delimiters[k])
            works == {k \in DOMAIN Delimiters : ~parse(k).error /\ parse(k).rows >= 1}
        IN  IF works = {}
            THEN /\ reader_outcome.kind = "raise"
                 /\ reader_outcome.cls = "generic_reader.DataImportError"
            ELSE LET first == CHOOSE k \in works : \A j \in works : k <= j
                 IN  /\ reader_outcome.kind = "return"
                     /\ Len(reader_outcome.angles) = parse(first).rows
                     /\ Len(reader_outcome.intensities) = parse(first).rows

\* The XRDML reader was called on a well-formed XML file.
XrdmlCalled ==
    /\ ld_pc = "done"
    /\ reader_log = <<"read_panalytical_xrdml">>
    /\ file.content.kind = "xml"
    /\ file.content.wellformed

\* C16: the angles come from positions[axis="2Theta"], the intensities from
\* intensities, or from counts when intensities is absent.  A missing scan,
\* dataPoints, positions or intensity element is reported as a malformed
\* file, unequal lengths as a size mismatch, no data point (an empty element
\* included) as an empty file; each of them is an import failure and an
\* empty series is never returned.
C16_XrdmlFailureKinds ==
    XrdmlCalled =>
        LET c == file.content
            node == IF c.intensities.present THEN c.intensities ELSE c.counts
            out == reader_outcome
            failure(text) ==
                /\ out.kind = "raise"
                /\ out.cls = "panalytical_reader.DataImportError"
                /\ out.msg.text = text
        IN  IF ~c.scan THEN failure("Could not find a <scan> element in the file.")
            ELSE IF ~c.dataPoints
            THEN failure("Could not find a <dataPoints> element in the scan.")
            ELSE IF ~c.positions.present
            THEN failure("Could not find <positions> for 2Theta axis.")
            ELSE IF ~node.present
            THEN failure("Could not find <intensities> or <counts> data.")
            ELSE IF Len(c.positions.values) # Len(node.values)
            THEN failure("Data corruption: The number of angle points does not match the number of intensity points.")
            ELSE IF Len(c.positions.values) = 0
            THEN failure("No data points found in the file.")
            ELSE out = [kind |-> "return", angles |-> c.positions.values,
                        intensities |-> node.values]

\* The local maxima that pass every threshold that is set.
Qualifying ==
    {p \in LocalMaxima(pf_intensities) :
        /\ min_height.set => pf_intensities[p] >= min_height.value
        /\ min_prominence.set => Prominence(pf_intensities, p).value >= min_prominence.value
        /\ min_width.set =>
               PeakWidth(pf_intensities, p).num >= min_width.value * PeakWidth(pf_intensities, p).den}

\* The table returned holds one record per qualifying maximum, made of its
\* angle and intensity, and is the empty table with the four columns when
\* there is none; the call does not raise.
OneRecordPerPeak ==
    LET rows == pf_result.rows
    IN  /\ pf_result.kind = "return"
        /\ pf_result.columns = <<"angle", "intensity", "prominence", "fwhm_angle">>
        /\ {rows[i].sample : i \in Indices(rows)} = Qualifying
        /\ Len(rows) = Cardinality(Qualifying)
        /\ \A i \in Indices(rows) :
              /\ rows[i].angle = pf_angles[rows[i].sample]
              /\ rows[i].intensity = pf_intensities[rows[i].sample]
        /\ (~min_height.set /\ ~min_prominence.set /\ ~min_width.set)
               => Len(rows) = Cardinality(LocalMaxima(pf_intensities))

\* C17 as stated: the records are in strictly ascending angle order, one per
\* local maximum that passes every threshold that is set; with none, the
\* empty table with columns angle, intensity, prominence, fwhm_angle is
\* returned and nothing is raised.
C17_StrictlyAscendingAngles ==
    pf_pc = "done" =>
        /\ OneRecordPerPeak
        /\ \A i, j \in Indices(pf_result.rows) :
              i < j => pf_result.rows[i].angle < pf_result.rows[j].angle

\* C17 amended: the records are in ascending angle order, strictly so when
\* no two samples of the series share an angle (records of equal angle are
\* adjacent, in either order); one record per local maximum that passes
\* every threshold that is set; with none, the empty table with the four
\* columns is returned and nothing is raised.
C17_AscendingAngles ==
    pf_pc = "done" =>
        /\ OneRecordPerPeak
        /\ \A i, j \in Indices(pf_result.rows) :
              i < j => pf_result.rows[i].angle <= pf_result.rows[j].angle
        /\ (\A a, b \in DOMAIN pf_angles : a # b => pf_angles[a] # pf_angles[b])
               => \A i, j \in Indices(pf_result.rows) :
                     i < j => pf_result.rows[i].angle < pf_result.rows[j].angle

\* A descending angle axis: the sort reversed the two records; a height
\* threshold was set and both maxima reached it.
C17_Witness ==
    /\ pf_pc = "done"
    /\ Len(pf_result.rows) = 2
    /\ pf_result.rows[1].sample > pf_result.rows[2].sample
    /\ pf_result.rows[1].angle < pf_result.rows[2].angle
    /\ min_height.set
    /\ ~min_prominence.set

\* The samples of the series whose angle lies in the closed window
\* [c - FWHM * m / 2, c + FWHM * m / 2].
WindowSamples ==
    {i \in DOMAIN fit_angles :
        /\ 2 * fit_angles[i] >= 2 * peak_info.angle - peak_info.fwhm_angle * fit_window_fwhm
        /\ 2 * fit_angles[i] <= 2 * peak_info.angle + peak_info.fwhm_angle * fit_window_fwhm}

\* C18: fit_peak uses exactly the samples whose angle lies in the closed
\* window [c - FWHM * m / 2, c + FWHM * m / 2]; with fewer than 5 of them it
\* raises FittingError without calling the fit; the fitted curve returned
\* has one value per window sample.
C18_WindowAndMinimumPoints ==
    (fit_pc \in {"window", "done"} /\ model_name \in MODELS) =>
        LET samples == Ascending(WindowSamples)
        IN  /\ x_window = [k \in Indices(samples) |-> fit_angles[samples[k]]]
            /\ y_window = [k \in Indices(samples) |-> fit_intensities[samples[k]]]
            /\ (fit_pc = "done" /\ Len(samples) < 5) =>
                   /\ fit_result.kind = "raise"
                   /\ fit_result.error = "FittingError"
                   /\ fit_result.msg = "Not enough data points in the selected window to perform a fit."
                   /\ curve_fit_calls = 0
            /\ (fit_pc = "done" /\ Len(samples) >= 5) => curve_fit_calls = 1
            /\ (fit_pc = "done" /\ fit_result.kind = "return") =>
                   /\ Len(samples) >= 5
                   /\ fit_result.x_window = x_window
                   /\ Len(fit_result.fit_curve) = Len(samples)
                   /\ \A k \in Indices(samples) :
                         fit_result.fit_curve[k].x = fit_angles[samples[k]]

\* A fit over exactly five samples, the first and the last of them on the
\* bounds of the window, out of a longer series.
C18_Witness ==
    /\ fit_pc = "done"
    /\ fit_result.kind = "return"
    /\ Len(x_window) = 5
    /\ Len(fit_angles) > 5
    /\ 2 * x_window[1] = 2 * peak_info.angle - peak_info.fwhm_angle * fit_window_fwhm
    /\ 2 * x_window[5] = 2 * peak_info.angle + peak_info.fwhm_angle * fit_window_fwhm

\* C19: an unknown model name is a FittingError raised before the peak and
\* the data are looked at, whatever the window would hold; a fit that does
\* not converge is a FittingError; a fit that succeeds returns the
\* parameters amplitude, center, sigma for the gaussian, amplitude, center,
\* gamma for the lorentzian and amplitude, center, fwhm, mixing for the
\* pseudo-Voigt model.
C19_ErrorsAndParameterNames ==
    fit_pc = "done" =>
        /\ model_name \notin {"gaussian", "lorentzian", "pseudo_voigt"} =>
               /\ fit_result.kind = "raise"
               /\ fit_result.error = "FittingError"
               /\ fit_result.msg = "Model '{model_name}' not recognized. Available models: {list(MODELS.keys())}"
               /\ x_window = <<>> /\ y_window = <<>>
               /\ curve_fit_calls = 0
        /\ (fit_result.kind = "raise" /\ curve_fit_calls = 1) =>
               /\ fit_result.error = "FittingError"
               /\ fit_result.msg = "Optimal parameters not found. The fit did not converge."
        /\ fit_result.kind = "return" =>
               DOMAIN fit_result.fit_params =
                   CASE model_name = "gaussian" -> {"amplitude", "center", "sigma"}
                     [] model_name = "lorentzian" -> {"amplitude", "center", "gamma"}
                     [] model_name = "pseudo_voigt" -> {"amplitude", "center", "fwhm", "mixing"}

\* A lorentzian fit returned its three parameters, each with the value
\* curve_fit gave it.
C19_Witness ==
    /\ fit_pc = "done"
    /\ model_name = "lorentzian"
    /\ fit_result.kind = "return"
    /\ fit_result.fit_params.amplitude = 1
    /\ fit_result.fit_params.center = 2
    /\ fit_result.fit_params.gamma = 1

\* C20: fewer than 2 peaks raise MicrostructureError before any regression
\* is attempted; with 2 or more peaks MicrostructureError is raised exactly
\* when the regression intercept is <= 0, and otherwise the size returned
\* is K * wavelength / intercept and the strain is the slope; every failure
\* of the analysis is a MicrostructureError.
C20_WilliamsonHallFailures ==
    wh_pc = "done" =>
        /\ Len(peaks_df) < 2 =>
               /\ wh_result = [kind |-> "raise", error |-> "MicrostructureError",
                                msg |-> "Williamson-Hall analysis requires at least 2 peaks."]
               /\ linregress_calls = 0
        /\ Len(peaks_df) >= 2 =>
               /\ linregress_calls = 1
               /\ IF ~intercept.nan /\ intercept.num <= 0
                  THEN wh_result = [kind |-> "raise", error |-> "MicrostructureError",
                                    msg |-> "Fit resulted in a non-positive y-intercept, cannot calculate size."]
                  ELSE /\ wh_result.kind = "return"
                       /\ wh_result.strain = slope
                       /\ ~intercept.nan =>
                              wh_result.crystallite_size_A.num * intercept.num * 100000
                                  = 138654 * intercept.den * wh_result.crystallite_size_A.den
        /\ wh_result.kind = "raise" => wh_result.error = "MicrostructureError"

\* ---- calculate_rir_quantification ----

\* Some phase of the caller's list has no RIR, or one that is not positive.
SomeRirNotPositive ==
    \E i \in Indices(phase_data) :
        ~phase_data[i].rir.present \/ phase_data[i].rir.value <= 0

\* C21: when any phase of the list has RIR <= 0 or no RIR, at whatever
\* position and whatever the other phases hold, calculate_rir_quantification
\* ends by raising QpaError and returns no weight-percent.
C21_NonPositiveRirRaises ==
    (rir_pc = "done" /\ SomeRirNotPositive) =>
        /\ rir_result.kind = "raise"
        /\ rir_result.error = "QpaError"

\* The last of two phases lacks its RIR, the first is in order: QpaError.
C21_Witness ==
    /\ rir_pc = "done"
    /\ Len(phase_data) = 2
    /\ phase_data[1].rir.present /\ phase_data[1].rir.value > 0
    /\ phase_data[1].intensity.present /\ phase_data[1].intensity.value > 0
    /\ ~phase_data[2].rir.present
    /\ rir_result.kind = "raise"

\* The product of the RIR values of the list.
RECURSIVE RirProduct(_)
RirProduct(phases) ==
    IF phases = <<>> THEN 1 ELSE Head(phases).rir.value * RirProduct(Tail(phases))

\* intensity_i / RIR_i of the caller's list, in units of 1 / RirProduct.
ScaledRatio(i) ==
    (IF phase_data[i].intensity.present THEN phase_data[i].intensity.value ELSE 0)
        * (RirProduct(phase_data) \div phase_data[i].rir.value)

ScaledRatioSum == SumSeq([i \in Indices(phase_data) |-> ScaledRatio(i)])

\* The sum of a list of fractions, as a fraction.
RECURSIVE SumOfFractions(_)
SumOfFractions(ws) ==
    IF ws = <<>> THEN [num |-> 0, den |-> 1]
    ELSE LET rest == SumOfFractions(Tail(ws))
         IN  [num |-> Head(ws).num * rest.den + rest.num * Head(ws).den,
              den |-> Head(ws).den * rest.den]

AllRirPositive ==
    \A i \in Indices(phase_data) : phase_data[i].rir.present /\ phase_data[i].rir.value > 0

\* C22: with every RIR > 0 the function returns one weight-percent per
\* phase, in input order (none for an empty list): all zeros when the sum of
\* the intensity/RIR ratios is 0, otherwise ratio_i / sum * 100, so that the
\* weights sum to 100 and, when no intensity is negative, each weight lies
\* in [0, 100].
C22_WeightPercents ==
    (rir_pc = "done" /\ AllRirPositive) =>
        /\ rir_result.kind = "return"
        /\ Len(rir_result.weight_percents) = Len(phase_data)
        /\ LET w == rir_result.weight_percents
           IN  IF ScaledRatioSum = 0
               THEN \A i \in Indices(w) : w[i].num = 0
               ELSE /\ \A i \in Indices(w) :
                          /\ w[i].den > 0
                          /\ w[i].num * ScaledRatioSum = ScaledRatio(i) * 100 * w[i].den
                    /\ SumOfFractions(w).num = 100 * SumOfFractions(w).den
                    /\ (\A i \in Indices(phase_data) : ScaledRatio(i) >= 0) =>
                          \A i \in Indices(w) : w[i].num >= 0 /\ w[i].num <= 100 * w[i].den

\* Two phases of different intensity and RIR got two different weights.
C22_Witness ==
    /\ rir_pc = "done"
    /\ AllRirPositive
    /\ Len(phase_data) = 2
    /\ phase_data[1].rir.value # phase_data[2].rir.value
    /\ ScaledRatio(1) > 0 /\ ScaledRatio(2) > ScaledRatio(1)
    /\ rir_result.kind = "return"
    /\ rir_result.weight_percents[1].num * rir_result.weight_percents[2].den
           < rir_result.weight_percents[2].num * rir_result.weight_percents[1].den

\* ---- the analysis core: inputs and ownership ----

\* What the caller passed to the running call.
callerInputs ==
    <<experimental_peaks, reference_pattern, angle_tolerance,
      intensities, iterations,
      poly_n, selected_indices, poly_order,
      pf_angles, pf_intensities, min_height, min_prominence, min_width,
      fit_angles, fit_intensities, peak_info, model_name, fit_window_fwhm,
      phase_data>>

\* The call is over: it returned or raised.
CallOver ==
    \/ sm_pc = "done" \/ er_pc = "done" \/ poly_pc = "done"
    \/ pf_pc = "done" \/ fit_pc = "done" \/ rir_pc = "done"

\* C23: no step of subtract_iterative_erosion, subtract_polynomial,
\* find_all_peaks, fit_peak, perform_search_match or
\* calculate_rir_quantification changes what the caller passed (the reference
\* pattern keeps its row order, the intensities their values), and no object
\* the call hands back is one of the caller's.
C23_InputsUntouchedNoAliasing ==
    [][/\ callerInputs' = callerInputs
       /\ \A o \in heap'.returned : o.owner = "callee"]_vars

\* The matcher returned after sorting a reference whose rows were not in
\* descending intensity order; the caller's table still has its own order.
C23_Witness ==
    /\ sm_pc = "done"
    /\ sm_result.kind = "return"
    /\ Len(reference_pattern.rows) = 2
    /\ sorted_reference # reference_pattern.rows
    /\ heap.returned # {}

\* ---- XRDData ----

\* C24: through any sequence of set_background, set_peaks and
\* reset_processing calls raw_angles and raw_intensities keep the values they
\* had at construction; when set_background(bg) has returned,
\* processed_intensities is raw_intensities - bg (not a subtraction from the
\* previous processed values); when reset_processing has returned,
\* processed_intensities equals raw_intensities, background_curve is None and
\* peaks_df is empty.
C24_RawKeptProcessedDerived ==
    xd_last.call \notin {"none"} =>
        /\ <<raw_angles, raw_intensities>> = constructed
        /\ (xd_last.call = "set_background" /\ ~xd_last.raised) =>
               /\ Len(processed_intensities) =
                      IF Len(raw_intensities) = 1 THEN Len(xd_last.arg)
                      ELSE Len(raw_intensities)
               /\ \A i \in Indices(processed_intensities) :
                      processed_intensities[i] =
                          raw_intensities[IF Len(raw_intensities) = 1 THEN 1 ELSE i]
                              - xd_last.arg[IF Len(xd_last.arg) = 1 THEN 1 ELSE i]
               /\ background_curve = Some(xd_last.arg)
        /\ xd_last.call = "reset_processing" =>
               /\ processed_intensities = raw_intensities
               /\ background_curve = None
               /\ xrd_peaks_df = <<>>

\* A second set_background on an object that already held a background and
\* peaks, after the caller overwrote the array it had built the object from.
C24_Witness ==
    /\ xd_last.call = "set_background"
    /\ ~xd_last.raised
    /\ Len(raw_intensities) = 2
    /\ xd_last.arg = <<1, 2>>
    /\ xrd_peaks_df # <<>>
    /\ caller_intensities # raw_intensities
    /\ processed_intensities = Minus(raw_intensities, <<1, 2>>)

\* ---- Project ----

\* The project as its three attributes.
ProjectState == <<db_id, experimental_data, reference_data>>

\* C25: after any sequence of load_experimental_data, add_reference,
\* remove_reference and clear_project calls, experimental_data is not a
\* reference pattern, and every entry of reference_data is a reference
\* pattern stored under its display name (one entry per name); a call with
\* the wrong kind of pattern raises ValueError and leaves the project as it
\* was; remove_reference returns True exactly when the name was a key; after
\* clear_project the project has no experiment, no references and db_id None.
C25_ProjectKinds ==
    pr_last.call # "none" =>
        /\ experimental_data.set => ~experimental_data.obj.is_reference
        /\ \A e \in reference_data :
               /\ e[2].is_reference
               /\ e[1].suffix = " (Ref)"
               /\ e[1].base = (IF e[2].filename = "" THEN "Reference"
                               ELSE IF e[2].filename = "data/NaCl.cif" THEN "NaCl.cif"
                               ELSE e[2].filename)
               /\ \A f \in reference_data : f[1] = e[1] => f = e
        /\ (pr_last.call = "load_experimental_data" /\ pr_last.obj.is_reference) =>
               pr_last.raised /\ ProjectState = pr_last.before
        /\ (pr_last.call = "add_reference" /\ ~pr_last.obj.is_reference) =>
               pr_last.raised /\ ProjectState = pr_last.before
        /\ pr_last.call = "remove_reference" =>
               /\ pr_last.returned = "True" <=> (\E e \in pr_last.before[3] : e[1] = pr_last.name)
               /\ \A e \in reference_data : e[1] # pr_last.name
        /\ pr_last.call = "clear_project" =>
               ProjectState = <<Unset, NoData, {}>>

\* An experimental pattern offered to add_reference was refused while the
\* project held an experiment and two references.
C25_Witness ==
    /\ pr_last.call = "add_reference"
    /\ ~pr_last.obj.is_reference
    /\ pr_last.raised
    /\ experimental_data.set
    /\ db_id.set
    /\ Cardinality(reference_data) = 2

\* ---- DatabaseManager ----

\* A float32 word as the words of the float64 of the same value.
Widened(word) ==
    LET e8 == word \div 2 ^ 23
        m23 == word % 2 ^ 23
    IN  <<(m23 % 8) * 2 ^ 29, (e8 - 127 + 1023) * 2 ^ 20 + m23 \div 8>>

\* np.array_equal: the same length, and the same number at each index.
ArrayEqual(a, b) ==
    LET Number(arr, i) ==
            IF arr.dtype = "float64" THEN arr.items[i] ELSE Widened(arr.items[i][1])
    IN  /\ Len(a.items) = Len(b.items)
        /\ \A i \in Indices(a.items) : Number(a, i) = Number(b, i)

\* C26: get_experiment_data of a stored experiment returns angles and
\* intensities of the stored length, element-wise equal to the arrays
\* add_experiment was given, for float64 and for float32 arrays alike; once
\* delete_experiment(id) has run the experiment is not listed, and
\* get_experiment_data of an id that is not stored raises DatabaseError.
C26_StoreReadBackRoundTrip ==
    /\ db_last.call = "get_experiment_data" =>
           /\ \A o \in originals :
                  o[1] = db_last.id =>
                      /\ db_last.result.kind = "return"
                      /\ ArrayEqual(db_last.result.angles, o[2].angles)
                      /\ ArrayEqual(db_last.result.intensities, o[2].intensities)
           /\ (~\E o \in originals : o[1] = db_last.id) =>
                  /\ db_last.result.kind = "raise"
                  /\ db_last.result.error = "DatabaseError"
    /\ db_last.call = "delete_experiment" =>
           ~\E row \in experiments : row.id = db_last.id

\* ---- perform_search_match: the greedy assignment ----

\* The reference greedy assignment after the first n reference peaks of the
\* visiting order: the experimental rows consumed and the records made.
RECURSIVE GreedyAfter(_)
GreedyAfter(n) ==
    IF n <= 0 THEN [consumed |-> {}, records |-> <<>>]
    ELSE LET prev == GreedyAfter(n - 1)
             ref == sorted_reference[n]
             Delta(e) == experimental_peaks.rows[e].angle - ref.angle
             free == {e \in Indices(experimental_peaks.rows) \ prev.consumed :
                         Abs(Delta(e)) <= angle_tolerance}
         IN  IF free = {} THEN prev
             ELSE LET nearest == {e \in free : \A f \in free : Abs(Delta(e)) <= Abs(Delta(f))}
                      best == CHOOSE e \in nearest : \A f \in nearest : e <= f
                  IN  [consumed |-> prev.consumed \cup {best},
                       records |-> Append(prev.records,
                                          [exp_angle |-> experimental_peaks.rows[best].angle,
                                           ref_angle |-> ref.angle,
                                           ref_intensity |-> ref.intensity,
                                           delta_angle |-> Delta(best),
                                           exp_row |-> best,
                                           ref_row |-> n])]

\* The visiting order: the rows of the reference, strongest first.
VisitsByDescendingIntensity ==
    /\ Len(sorted_reference) = Len(reference_pattern.rows)
    /\ \A i \in Indices(sorted_reference) :
           Cardinality({j \in Indices(sorted_reference) : sorted_reference[j] = sorted_reference[i]})
               = Cardinality({j \in Indices(reference_pattern.rows) :
                                 reference_pattern.rows[j] = sorted_reference[i]})
    /\ \A i, j \in Indices(sorted_reference) :
           i < j => sorted_reference[i].intensity >= sorted_reference[j].intensity

\* C27: perform_search_match computes the greedy assignment: it visits the
\* reference peaks in descending intensity order; a visited peak is matched
\* iff an experimental row not yet consumed lies within the tolerance (bounds
\* included), and then to the nearest such row, the earliest row on a tie;
\* that row is consumed for the later peaks; the record holds delta_angle =
\* exp_angle - ref_angle; the records are in visiting order.  The loop state
\* is compared after every iteration, the visiting order when the loop is
\* entered and when the function returns.
C27_GreedyAssignment ==
    ref_idx >= 1 =>
        LET greedy == GreedyAfter(ref_idx - 1)
        IN  /\ matched_peaks_info = greedy.records
            /\ used_exp_indices = greedy.consumed
            /\ ref_idx = 1 => VisitsByDescendingIntensity
            /\ Returned => /\ VisitsByDescendingIntensity
                           /\ ref_idx - 1 = Len(sorted_reference)
                           /\ sm_result.matches = greedy.records

\* The strongest reference peak lay midway between two experimental rows and
\* took the earlier one; the later row went to the second reference peak.
C27_Witness ==
    /\ Returned
    /\ Len(sm_result.matches) = 2
    /\ sm_result.matches[1].exp_row = 1
    /\ sm_result.matches[2].exp_row = 2
    /\ sm_result.matches[1].delta_angle # 0
    /\ Abs(experimental_peaks.rows[2].angle - sm_result.matches[1].ref_angle)
           = Abs(sm_result.matches[1].delta_angle)
    /\ sm_result.matches[1].ref_intensity > sm_result.matches[2].ref_intensity


\* Reference peaks of the visiting order that the returned table leaves out.
Unmatched ==
    {n \in Indices(sorted_reference) :
        \A k \in Indices(sm_result.matches) : sm_result.matches[k].ref_row # n}

WithinTolerance(n, e) ==
    Abs(experimental_peaks.rows[e].angle - sorted_reference[n].angle) <= angle_tolerance

\* Some 1:1 assignment within tolerance matches every reference peak.
FullAssignmentExists ==
    \E f \in [Indices(sorted_reference) -> Indices(experimental_peaks.rows)] :
        /\ \A n, m \in Indices(sorted_reference) : f[n] = f[m] => n = m
        /\ \A n \in Indices(sorted_reference) : WithinTolerance(n, f[n])

\* C28: the greedy assignment is not globally optimal.  When a full 1:1
\* assignment within tolerance exists and perform_search_match still leaves
\* a reference peak unmatched, the figure of merit is below 100 and every
\* experimental row that peak could use was consumed by a reference peak
\* visited before it, one at least as strong; such inputs exist (C28_Witness).
C28_GreedyNotOptimal ==
    (Returned /\ FullAssignmentExists) =>
        \A n \in Unmatched :
            /\ sm_result.fom.num < 100 * sm_result.fom.den
            /\ \A e \in Indices(experimental_peaks.rows) :
                   WithinTolerance(n, e) =>
                       \E k \in Indices(sm_result.matches) :
                           /\ sm_result.matches[k].exp_row = e
                           /\ sm_result.matches[k].ref_row < n
                           /\ sm_result.matches[k].ref_intensity >= sorted_reference[n].intensity

\* A full assignment exists, yet the weaker reference peak is unmatched and
\* the score is below 100: the only row it could use went to the stronger one.
C28_Witness ==
    /\ Returned
    /\ FullAssignmentExists
    /\ sm_result.fom.num < 100 * sm_result.fom.den
    /\ \E n \in Unmatched :
           \E e \in Indices(experimental_peaks.rows) :
               /\ WithinTolerance(n, e)
               /\ \A d \in Indices(experimental_peaks.rows) : WithinTolerance(n, d) => d = e
               /\ \E k \in Indices(sm_result.matches) :
                      /\ sm_result.matches[k].exp_row = e
                      /\ sm_result.matches[k].ref_intensity > sorted_reference[n].intensity


\* ---- subtract_iterative_erosion: the iteration ----

\* b2 is b after one simultaneous update, with 0-based positions k:
\* b2[k] = min(b[k], (b[(k-1) mod n] + b[(k+1) mod n]) / 2).
SimultaneousStep(b, b2) ==
    /\ Len(b2) = Len(b)
    /\ \A k \in 0..(Len(b) - 1) :
           2 * b2[k + 1] = Min(2 * b[k + 1],
                               b[((k - 1 + Len(b)) % Len(b)) + 1] + b[((k + 1) % Len(b)) + 1])

\* b2 is b after n simultaneous updates.
RECURSIVE AfterIterations(_, _, _)
AfterIterations(b, n, b2) ==
    IF n <= 0 THEN b2 = b
    ELSE \E mid \in {Erode(b)} : SimultaneousStep(b, mid) /\ AfterIterations(mid, n - 1, b2)

\* C29: each iteration updates all points at once from the values before the
\* iteration, with circular neighbours; the result is a function of the
\* intensities and the iteration count, is the input for 0 iterations, never
\* falls below the minimum of the input, and a fixed point stays unchanged
\* by further iterations.
C29_SimultaneousCircularErosion ==
    /\ [][(er_pc = "loop" /\ background' # background)
              => SimultaneousStep(background, background')]_vars
    /\ [][(er_pc = "loop" /\ SimultaneousStep(background, background))
              => background' = background]_vars
    /\ [](er_pc \in {"loop", "done"} =>
            /\ AfterIterations(intensities, er_iter, background)
            /\ \A i \in DOMAIN background : \E j \in DOMAIN intensities :
                   intensities[j] <= background[i])
    /\ [](er_pc = "done" =>
            /\ er_iter = Max(iterations, 0)
            /\ iterations = 0 => background = intensities)

\* Two iterations ran; the first point was lowered through its circular
\* neighbour, the last point, and updating the points one after the other
\* would have given another background.
C29_Witness ==
    /\ er_pc = "done"
    /\ er_iter = 2
    /\ Len(intensities) = 3
    /\ Erode(intensities)[1] < intensities[1]
    /\ intensities[2] >= intensities[1]
    /\ ErodeInPlace(intensities) # Erode(intensities)
    /\ background # Erode(intensities)


\* ---- BatchRunner.run_batch: completion ----

\* _run_clicked called run_batch, and run_batch has returned.
BatchOver == br_pc = "returned" /\ entries.numeric /\ entries.input_folder # ""

\* C30: every invocation of run_batch ends, and when it has ended completion
\* was notified exactly once (on_batch_complete: the run button enabled
\* again, 'Batch process complete!' logged), whether the folder was empty,
\* files failed, a critical failure occurred or all went well; a failure on
\* one file never keeps the loop from the files after it.
C30_CompletionNotifiedOnce ==
    /\ (br_pc = "listing") ~> BatchOver
    /\ [](BatchOver =>
            /\ ui.notified = 1
            /\ ui.run_button = "normal"
            /\ Cardinality({k \in DOMAIN ui.log_textbox :
                               ui.log_textbox[k].message = "Batch process complete!"}) = 1)
    /\ [](br_pc \in {"finally", "returned"} /\ all_files # <<>>
            => /\ file_idx = Len(all_files)
               /\ Cardinality({k \in DOMAIN ui.log_textbox :
                                  ui.log_textbox[k].message = "Processing"}) = Len(all_files))

====
